---------------------------- MODULE Spec2Model ----------------------------
(***************************************************************************)
(* A model of the core of `parallel`: the input spooler                    *)
(* (src/src/arguments/mod.rs), the indexed input reader                    *)
(* (src/src/input_iterator/iterator.rs), the tokenizer                     *)
(* (src/src/tokenizer/mod.rs) and the worker pool with its ordered output  *)
(* collector (src/src/main.rs).                                            *)
(*                                                                         *)
(* Strings are sequences of one-character strings, so that every byte-wise *)
(* loop of the source is a loop here.  The module holds four               *)
(* specifications over one set of variables:                               *)
(*   SpecSpool   Args::parse from the first list marker on, and the        *)
(*               spooler that writes `unprocessed`;                        *)
(*   SpecReader  InputIterator::new and Iterator::next over a spool;       *)
(*   SpecTok     tokenize over a template;                                 *)
(*   Spec        the workers, the shared reader and the collector.         *)
(***************************************************************************)
EXTENDS Integers, Sequences, FiniteSets, TLC

(***************************************************************************)
(* Bounds of the model.                                                    *)
(***************************************************************************)
\* the most list groups (a marker and its values) on the command line
MaxGroups == 2
\* the largest --max-args value tried
MaxMaxArgs == 3
\* the longest standard input, in lines
MaxStdin == 4
\* the window of the reader in bytes (8 * 1024 in disk_buffer), scaled down;
\* the index array keeps its BUFFER_SIZE / 2 entries
BUFFER_SIZE == 8
\* the most records of a spool handed to the reader alone
MaxRecords == 5
\* the most pieces of a command template
MaxSegments == 2
\* the most jobs of a run of the worker pool
MaxJobs == 2
\* the most workers (--jobs)
MaxCores == 2

VARIABLES
    pc,                  \* control point of the specification at hand
    \* ---- Args::parse and the spooler
    arguments,           \* the argument vector from the first list marker on
    stdin,               \* the lines of standard input
    max_args,            \* Args::parse: max_args
    inputs_are_commands, \* flags & INPUTS_ARE_COMMANDS != 0
    quote_enabled,       \* Args::parse: quote_enabled
    mode,                \* parse_inputs: *mode
    index,               \* parse_inputs: index (1-based here)
    current_inputs,      \* parse_inputs: current_inputs
    append_list,         \* parse_inputs: append_list
    lists,               \* parse_inputs: lists
    unprocessed,         \* the bytes of the spool file `unprocessed`
    number_of_arguments, \* Args::parse: number_of_arguments
    \* ---- the indexed input reader
    shared_input,        \* main: shared_input, the InputIterator
    yielded,             \* history: the items the iterator has returned
    \* ---- the tokenizer
    comm,                \* main: comm, the command template
    tokens,              \* main: args.arguments, the tokens of the template
    exit_code,           \* the code the program exited with, -1 while it runs
    \* ---- the worker pool and the collector
    ncores,              \* args.ncores
    mutex,               \* the Mutex of shared_input: 0, or the slot holding it
    threads,             \* per slot: where the worker is and the job it holds
    input_rx,            \* the channel of completion records, oldest first
    pending,             \* collector: records waiting for their predecessors
    next_to_emit,        \* collector: the job number to emit next
    stdout,              \* the bytes written to the program's stdout
    acquired,            \* history: the acquisitions in the order of the lock
    \* ---- Args::parse before the lists
    argv,                \* Args::parse: arguments[1..], the whole command line
    redirected,          \* redirection::input_was_redirected() is Some(path)
    \* ---- the command builder
    flags,               \* args.flags, the set of the flags that are on
    command,             \* the ParallelCommand of the job being built
    command_buffer,      \* the argument string ParallelCommand::exec builds
    child_stdin,         \* the child's stdin: the bytes written, and closed
    \* ---- teardown
    errors,              \* receive_messages: the number of failing jobs
    errors_file,         \* the bytes of the spool file `errors`
    \* ---- options, the clock and the launcher
    mem_free,            \* the value given to --mem-free
    memory,              \* Args.memory, a u64 as four 16-bit limbs, low first
    now,                 \* time::precise_time_ns()
    eta,                 \* the ETA that InputIterator::eta returned last
    stderr,              \* the program's stderr
    child,               \* the process get_command_output spawned last
    digits_call          \* a call of digits(): its type, argument and result

spoolVars == <<arguments, stdin, max_args, inputs_are_commands, quote_enabled,
               mode, index, current_inputs, append_list, lists,
               unprocessed, number_of_arguments>>

readerVars == <<shared_input, yielded>>

tokVars == <<comm, tokens, exit_code>>

poolVars == <<ncores, mutex, threads, input_rx, pending, next_to_emit, stdout,
              acquired>>

argsVars == <<argv, redirected>>

cmdVars == <<flags, command, command_buffer, child_stdin>>

exitVars == <<errors, errors_file>>

auxVars == <<mem_free, memory, now, eta, stderr, child, digits_call>>

vars == <<pc, spoolVars, readerVars, tokVars, poolVars, argsVars, cmdVars,
          exitVars, auxVars>>

(***************************************************************************)
(* Strings.                                                                *)
(***************************************************************************)
\* the value of shared_input before InputIterator::new
NoIterator == [total_arguments |-> 0]

\* the worker pool and the collector before main starts them
NoPool ==
    /\ ncores = 0 /\ mutex = 0 /\ threads = <<>> /\ input_rx = <<>>
    /\ pending = {} /\ next_to_emit = 1 /\ stdout = <<>> /\ acquired = <<>>

\* the whole command line before Args::parse reads it
NoArgs == argv = <<>> /\ redirected = FALSE

\* a child's stdin that is not piped
NoStdin == [bytes |-> <<>>, closed |-> FALSE]

\* the command builder before any command is built
NoCommand == [slot_no |-> <<>>, job_no |-> <<>>, input |-> <<>>]

NoCmd ==
    /\ flags = {} /\ command = NoCommand
    /\ command_buffer = <<>> /\ child_stdin = NoStdin

\* no job has failed and `errors` is empty
NoExit == errors = 0 /\ errors_file = <<>>

\* no option value, the clock at 0, nothing on stderr, no child, no call
\* of digits()
NoChild == [program |-> <<>>]

NoNumber == [type |-> "none"]

NoEta == [left |-> 0, time |-> 0, average |-> 0]

NoAux ==
    /\ mem_free = <<>> /\ memory = <<0, 0, 0, 0>> /\ now = 0 /\ eta = NoEta
    /\ stderr = <<>> /\ child = NoChild /\ digits_call = NoNumber

SP == " "
NL == "\n"

Min(a, b) == IF a < b THEN a ELSE b

\* the concatenation of a sequence of strings
RECURSIVE Flatten(_)
Flatten(ss) ==
    IF ss = <<>> THEN <<>>
    ELSE IF Len(ss) = 1 THEN ss[1]
    ELSE Flatten(SubSeq(ss, 1, Len(ss) \div 2))
            \o Flatten(SubSeq(ss, Len(ss) \div 2 + 1, Len(ss)))

\* all sequences over S of length 0..n
SeqsUpTo(S, n) == UNION {[1..k -> S] : k \in 0..n}

(***************************************************************************)
(* The command line.  An argument is a list marker or a value; a value is  *)
(* an input in Inputs mode and the path of a file in Files mode.           *)
(***************************************************************************)
MarkInputs       == <<":", ":", ":">>
MarkInputsAppend == <<":", ":", ":", "+">>
MarkFiles        == <<":", ":", ":", ":">>
MarkFilesAppend  == <<":", ":", ":", ":", "+">>
Markers == {MarkInputs, MarkInputsAppend, MarkFiles, MarkFilesAppend}

ValA == <<"a">>
ValB == <<"b", " ", "'">>
Values == {ValA, ValB}

\* the lines of the file a value names (an empty line and a comment among them)
FileLines(path) ==
    IF path = ValA THEN <<ValA, <<>>, <<"#", "a">>, ValB>> ELSE <<ValB>>

\* Same as quote_inputs but the first word, up to and with its space, is kept
\* as it is; after it, each of " \ ' and space gets a backslash before it.
RECURSIVE QuoteRest(_)
QuoteRest(bytes) ==
    IF bytes = <<>> THEN <<>>
    ELSE LET byte == Head(bytes) IN
         (IF byte \in {"\"", "\\", "'", SP} THEN <<"\\", byte>> ELSE <<byte>>)
            \o QuoteRest(Tail(bytes))

RECURSIVE quote_command(_)
quote_command(input) ==
    IF input = <<>> THEN <<>>
    ELSE IF Head(input) = SP THEN <<SP>> \o QuoteRest(Tail(input))
    ELSE <<Head(input)>> \o quote_command(Tail(input))

\* file_parse: the lines of the file that are not empty and do not start with
\* '#', quoted as commands when the inputs are the commands
RECURSIVE FileParseLines(_, _)
FileParseLines(lines, iac) ==
    IF lines = <<>> THEN <<>>
    ELSE LET line == Head(lines) IN
         (IF line # <<>> /\ Head(line) # "#"
            THEN <<IF iac THEN quote_command(line) ELSE line>>
            ELSE <<>>) \o FileParseLines(Tail(lines), iac)

file_parse(inputs, path, iac) == inputs \o FileParseLines(FileLines(path), iac)

\* merge_lists: the original list after the call (the append list is drained)
merge_lists(original, append) ==
    LET truncated == IF Len(original) > Len(append)
                       THEN SubSeq(original, 1, Len(append)) ELSE original
    IN [i \in 1..Len(truncated) |->
          IF i <= Len(append) THEN truncated[i] \o <<SP>> \o append[i]
                              ELSE truncated[i]]

AppendModes == {"InputsAppend", "FilesAppend"}

\* the list the switch_mode! macro and the end of parse_inputs leave in
\* current_inputs before pushing it: merged when an append group ends
IsMerge == mode \in AppendModes

AfterMerge == IF IsMerge THEN merge_lists(current_inputs, append_list)
                         ELSE current_inputs
(***************************************************************************)
(* write_inputs_to_disk.  The Permutator of the `permutate` crate is an    *)
(* odometer over one index per list, the last list's index moving first.   *)
(***************************************************************************)
\* (mutant) the odometer moving the first list's index first
RECURSIVE IncrementUp(_, _, _)
IncrementUp(indexes, lens, k) ==
    IF indexes[k] + 1 >= lens[k]
      THEN IF k # Len(lens) THEN IncrementUp([indexes EXCEPT ![k] = 0], lens, k + 1)
                            ELSE indexes
      ELSE [indexes EXCEPT ![k] = indexes[k] + 1]

Increment_FirstFastest(indexes, lens, k) == IncrementUp(indexes, lens, 1)

\* Permutator::next_with_buffer: the next indexes, counting from list k down
RECURSIVE Increment(_, _, _)
Increment(indexes, lens, k) ==
    IF indexes[k] + 1 >= lens[k]
      THEN IF k # 1 THEN Increment([indexes EXCEPT ![k] = 0], lens, k - 1)
                    ELSE indexes
      ELSE [indexes EXCEPT ![k] = indexes[k] + 1]

\* the number of permutations
RECURSIVE Product(_)
Product(lens) == IF lens = <<>> THEN 1 ELSE Head(lens) * Product(Tail(lens))

\* the elements of one permutation, joined by single spaces
RECURSIVE JoinSpace(_)
JoinSpace(elements) ==
    IF elements = <<>> THEN <<>>
    ELSE IF Len(elements) = 1 THEN Head(elements)
    ELSE Head(elements) \o <<SP>> \o JoinSpace(Tail(elements))

Permutation(ls, indexes) == [k \in 1..Len(ls) |-> ls[k][indexes[k] + 1]]

\* the `while permutator.next_with_buffer(..)` loop without grouping
RECURSIVE PermLoop(_, _, _, _, _)
PermLoop(ls, indexes, left, file, n) ==
    IF left = 0 THEN [file |-> file, n |-> n]
    ELSE LET next == Increment(indexes, [k \in 1..Len(ls) |-> Len(ls[k])], Len(ls))
         IN PermLoop(ls, next, left - 1,
                     file \o JoinSpace(Permutation(ls, next)) \o <<NL>>, n + 1)

\* the same loop when max_args >= 2
RECURSIVE PermLoopGrouped(_, _, _, _, _, _, _)
PermLoopGrouped(ls, indexes, left, file, n, m, max_args_index) ==
    IF left = 0 THEN [file |-> file, n |-> n]
    ELSE LET next == Increment(indexes, [k \in 1..Len(ls) |-> Len(ls[k])], Len(ls))
             text == JoinSpace(Permutation(ls, next))
         IN IF max_args_index = m
              THEN PermLoopGrouped(ls, next, left - 1, file \o text, n + 1, m,
                                   max_args_index - 1)
            ELSE IF max_args_index = 1
              THEN PermLoopGrouped(ls, next, left - 1,
                                   file \o <<SP>> \o text \o <<NL>>, n, m, m)
            ELSE PermLoopGrouped(ls, next, left - 1, file \o <<SP>> \o text, n, m,
                                 max_args_index - 1)

\* (mutant) chunks of max_args - 1 inputs
RECURSIVE Chunks_OneShort(_, _, _, _)
Chunks_OneShort(inputs, m, file, n) ==
    IF inputs = <<>> THEN [file |-> file, n |-> n]
    ELSE LET k == Min(m - 1, Len(inputs)) IN
         Chunks_OneShort(SubSeq(inputs, k + 1, Len(inputs)), m,
                         file \o JoinSpace(SubSeq(inputs, 1, k)) \o <<NL>>, n + 1)

\* current_inputs.chunks(max_args), each chunk on one line
RECURSIVE Chunks(_, _, _, _)
Chunks(inputs, m, file, n) ==
    IF inputs = <<>> THEN [file |-> file, n |-> n]
    ELSE LET k == Min(m, Len(inputs)) IN
         Chunks(SubSeq(inputs, k + 1, Len(inputs)), m,
                file \o JoinSpace(SubSeq(inputs, 1, k)) \o <<NL>>, n + 1)

write_inputs_to_disk(ls, inputs, m) ==
    IF Len(ls) > 1
      THEN LET zero  == [k \in 1..Len(ls) |-> 0]
               first == JoinSpace(Permutation(ls, zero))
               left  == Product([k \in 1..Len(ls) |-> Len(ls[k])]) - 1
           IN IF m < 2
                THEN PermLoop(ls, zero, left, first \o <<NL>>, 1)
                ELSE PermLoopGrouped(ls, zero, left, first, 1, m, m - 1)
    ELSE IF m < 2
      THEN [file |-> Flatten([i \in 1..Len(inputs) |-> inputs[i] \o <<NL>>]),
            n |-> Len(inputs)]
    ELSE Chunks(inputs, m, <<>>, 0)
(***************************************************************************)
(* write_stdin_to_disk.                                                    *)
(***************************************************************************)
\* the lines that pass `if line.is_empty() { continue }`, after parse_line
RECURSIVE StdinLines(_, _)
StdinLines(lines, quoting) ==
    IF lines = <<>> THEN <<>>
    ELSE LET line == IF quoting THEN quote_command(Head(lines)) ELSE Head(lines)
         IN (IF line = <<>> THEN <<>> ELSE <<line>>)
               \o StdinLines(Tail(lines), quoting)

\* the loop over the lines when max_args >= 2, and the newline after it
RECURSIVE StdinGrouped(_, _, _, _, _)
StdinGrouped(lines, file, n, m, max_args_index) ==
    IF lines = <<>>
      THEN [file |-> IF max_args_index # m THEN file \o <<NL>> ELSE file, n |-> n]
    ELSE LET line == Head(lines) IN
         IF max_args_index = m
           THEN StdinGrouped(Tail(lines), file \o line, n + 1, m, max_args_index - 1)
         ELSE IF max_args_index = 1
           THEN StdinGrouped(Tail(lines), file \o <<SP>> \o line \o <<NL>>, n, m, m)
         ELSE StdinGrouped(Tail(lines), file \o <<SP>> \o line, n, m,
                           max_args_index - 1)

write_stdin_to_disk(m, iac, quote, input) ==
    LET lines == StdinLines(input, iac /\ quote) IN
    IF m < 2
      THEN [file |-> Flatten([i \in 1..Len(lines) |-> lines[i] \o <<NL>>]),
            n |-> Len(lines)]
      ELSE StdinGrouped(lines, <<>>, 0, m, m)

(***************************************************************************)
(* SpecSpool: Args::parse from the first list marker on.                   *)
(***************************************************************************)
\* the values that follow one list marker
MemberLists == {<<>>, <<ValA>>, <<ValB>>, <<ValA, ValB>>, <<ValB, ValA>>}

Groups == {<<mk>> \o vs : mk \in Markers, vs \in MemberLists}

ArgumentVectors == {Flatten(gs) : gs \in SeqsUpTo(Groups, MaxGroups)}

\* what standard input may hold: any lines when it is the only source, and a
\* few cases when Args::parse falls back to it
StdinInputs ==
    IF arguments = <<>> THEN SeqsUpTo({<<>>, ValA, ValB}, MaxStdin)
                        ELSE {<<>>, <<ValA>>, <<ValB, <<>>, ValA>>}

\* Args::parse: the first marker sets the mode; without arguments the inputs
\* come from standard input
SpoolInit ==
    /\ arguments \in ArgumentVectors
    /\ inputs_are_commands \in BOOLEAN
    /\ pc = IF arguments = <<>> THEN "stdin" ELSE "parse_inputs"
    /\ mode = IF arguments = <<>> THEN "Arguments"
              ELSE IF arguments[1] \in {MarkInputs, MarkInputsAppend}
                THEN "Inputs" ELSE "Files"
    /\ index = 2
    /\ current_inputs = <<>>
    /\ append_list = <<>>
    /\ lists = <<>>
    /\ stdin = <<>>
    /\ max_args = 0
    /\ quote_enabled = FALSE
    /\ unprocessed = <<>>
    /\ number_of_arguments = 0
    /\ shared_input = NoIterator
    /\ yielded = <<>>
    /\ comm = <<>> /\ tokens = <<>> /\ exit_code = -1
    /\ NoPool /\ NoArgs /\ NoCmd /\ NoExit /\ NoAux

argument == arguments[index]

ParseFrame == UNCHANGED <<arguments, stdin, max_args, inputs_are_commands,
                          quote_enabled, unprocessed, number_of_arguments,
                          readerVars, tokVars, poolVars, argsVars,
                          cmdVars, exitVars, auxVars>>

\* switch_mode!(Mode::Inputs) and switch_mode!(Mode::Files)
ParseSwitchMode ==
    /\ pc = "parse_inputs" /\ index <= Len(arguments)
    /\ argument \in {MarkInputs, MarkFiles}
    /\ index' = index + 1
    /\ mode' = IF argument = MarkInputs THEN "Inputs" ELSE "Files"
    /\ append_list' = IF IsMerge THEN <<>> ELSE append_list
    /\ IF AfterMerge # <<>>
         THEN lists' = Append(lists, AfterMerge) /\ current_inputs' = <<>>
         ELSE lists' = lists /\ current_inputs' = AfterMerge
    /\ pc' = pc
    /\ ParseFrame

\* switch_mode!(append Mode::InputsAppend) and switch_mode!(append Mode::FilesAppend)
ParseSwitchModeAppend ==
    /\ pc = "parse_inputs" /\ index <= Len(arguments)
    /\ argument \in {MarkInputsAppend, MarkFilesAppend}
    /\ index' = index + 1
    /\ mode' = IF argument = MarkInputsAppend THEN "InputsAppend" ELSE "FilesAppend"
    /\ append_list' = IF IsMerge THEN <<>> ELSE append_list
    /\ current_inputs' = AfterMerge
    /\ pc' = pc
    /\ UNCHANGED lists
    /\ ParseFrame

\* every other argument is added to the current list or to the append list
ParseValue ==
    /\ pc = "parse_inputs" /\ index <= Len(arguments)
    /\ argument \notin Markers
    /\ index' = index + 1
    /\ LET quoted == IF inputs_are_commands THEN quote_command(argument)
                                            ELSE argument
       IN CASE mode = "Inputs" ->
                 /\ current_inputs' = Append(current_inputs, quoted)
                 /\ UNCHANGED append_list
            [] mode = "InputsAppend" ->
                 /\ append_list' = Append(append_list, quoted)
                 /\ UNCHANGED current_inputs
            [] mode = "Files" ->
                 /\ current_inputs' =
                        file_parse(current_inputs, argument, inputs_are_commands)
                 /\ UNCHANGED append_list
            [] mode = "FilesAppend" ->
                 /\ append_list' =
                        file_parse(append_list, argument, inputs_are_commands)
                 /\ UNCHANGED current_inputs
    /\ UNCHANGED <<pc, mode, lists>>
    /\ ParseFrame

\* the end of parse_inputs: a last merge when the append list is not empty,
\* and the current list pushed when it is not empty
EndMerge == IF append_list # <<>> THEN AfterMerge ELSE current_inputs

ParseEnd ==
    /\ pc = "parse_inputs" /\ index > Len(arguments)
    /\ current_inputs' = EndMerge
    /\ append_list' = IF append_list # <<>> /\ IsMerge THEN <<>> ELSE append_list
    /\ lists' = IF EndMerge # <<>> THEN Append(lists, EndMerge) ELSE lists
    /\ pc' = "write_inputs_to_disk"
    /\ UNCHANGED <<mode, index>>
    /\ ParseFrame

\* write_inputs_to_disk, and Args::parse falling back to standard input when
\* it wrote nothing
WriteInputsToDisk ==
    /\ pc = "write_inputs_to_disk"
    /\ \E m \in 0..MaxMaxArgs :
         LET out == write_inputs_to_disk(lists, current_inputs, m) IN
         /\ max_args' = m
         /\ unprocessed' = out.file
         /\ number_of_arguments' = out.n
         /\ pc' = IF out.n = 0 THEN "stdin" ELSE "spooled"
    /\ UNCHANGED <<arguments, stdin, inputs_are_commands, quote_enabled, mode,
                   index, current_inputs, append_list, lists, readerVars,
                   tokVars, poolVars, argsVars, cmdVars, exitVars, auxVars>>

\* write_stdin_to_disk, and Args::parse returning NoArguments when it wrote
\* nothing
WriteStdinToDisk ==
    /\ pc = "stdin"
    /\ \E input \in StdinInputs, q \in BOOLEAN, m \in {max_args} \cup
                 (IF arguments = <<>> THEN 0..MaxMaxArgs ELSE {}) :
         LET out == write_stdin_to_disk(m, inputs_are_commands, q, input) IN
         /\ stdin' = input
         /\ quote_enabled' = q
         /\ max_args' = m
         /\ unprocessed' = out.file
         /\ number_of_arguments' = out.n
         /\ pc' = IF out.n = 0 THEN "NoArguments" ELSE "spooled"
    /\ UNCHANGED <<arguments, inputs_are_commands, mode, index, current_inputs,
                   append_list, lists, readerVars, tokVars, poolVars, argsVars,
                          cmdVars, exitVars, auxVars>>

SpoolNext ==
    \/ ParseSwitchMode
    \/ ParseSwitchModeAppend
    \/ ParseValue
    \/ ParseEnd
    \/ WriteInputsToDisk
    \/ WriteStdinToDisk

SpecSpool == SpoolInit /\ [][SpoolNext]_vars
(***************************************************************************)
(* Properties of the spooler.                                              *)
(***************************************************************************)
\* `unprocessed` read back: the newline-terminated records, and the bytes
\* after the last newline
RECURSIVE SplitLines(_, _, _)
SplitLines(bytes, line, acc) ==
    IF bytes = <<>> THEN [records |-> acc, rest |-> line]
    ELSE IF Head(bytes) = NL THEN SplitLines(Tail(bytes), <<>>, Append(acc, line))
    ELSE SplitLines(Tail(bytes), Append(line, Head(bytes)), acc)

TerminatedRecords(file) == SplitLines(file, <<>>, <<>>).records
Fragment(file) == SplitLines(file, <<>>, <<>>).rest

\* the logical inputs written, the last one whether or not a newline ends it
WrittenInputs(file) ==
    TerminatedRecords(file) \o
        (IF Fragment(file) # <<>> THEN <<Fragment(file)>> ELSE <<>>)

\* the spooler ran over the lists of the command line
SpooledFromLists == pc = "spooled" /\ stdin = <<>>
\* the spooler ran over standard input
SpooledFromStdin == pc = "spooled" /\ stdin # <<>>

\* the i-th tuple (i from 1) of the cartesian product of ls in lexicographic
\* order: list k's member is picked by (i-1) div (the sizes after k) mod |ls[k]|
RECURSIVE Stride(_, _)
Stride(ls, k) == IF k >= Len(ls) THEN 1 ELSE Len(ls[k + 1]) * Stride(ls, k + 1)

Tuple(ls, i) ==
    [k \in 1..Len(ls) |-> ls[k][(((i - 1) \div Stride(ls, k)) % Len(ls[k])) + 1]]

CartesianSize(ls) == Len(ls[1]) * Stride(ls, 1)

CartesianProduct(ls) == [i \in 1..CartesianSize(ls) |-> JoinSpace(Tuple(ls, i))]

\* C3: with two or more lists and no max_args grouping, the spool holds exactly
\* |L1|*...*|Lk| records, the i-th being the i-th space-joined tuple of the
\* cartesian product in lexicographic order (last list fastest), and the
\* reported total is that number.
C3_CartesianProduct ==
    (SpooledFromLists /\ Len(lists) >= 2 /\ max_args < 2) =>
        /\ number_of_arguments = CartesianSize(lists)
        /\ TerminatedRecords(unprocessed) = CartesianProduct(lists)
        /\ Fragment(unprocessed) = <<>>

\* [a, b '] and [a, b '] give a a, a b ', b ' a, b ' b '
C3_Witness ==
    /\ SpooledFromLists /\ max_args = 0
    /\ lists = <<<<ValA, ValB>>, <<ValA, ValB>>>>
    /\ TerminatedRecords(unprocessed) =
         <<<<"a", " ", "a">>, <<"a", " ", "b", " ", "'">>,
           <<"b", " ", "'", " ", "a">>, <<"b", " ", "'", " ", "b", " ", "'">>>>

\* an append group is open and the next step of parse_inputs closes it
ClosesAppendGroup ==
    /\ pc = "parse_inputs" /\ IsMerge
    /\ (index > Len(arguments) \/ argument \in Markers)

\* the members of two lists joined pairwise by one space, as long as the shorter
ZipLists(prior, append) ==
    [i \in 1..Min(Len(prior), Len(append)) |-> prior[i] \o <<SP>> \o append[i]]

\* the list an append group was merged into, after the step that closed it:
\* still the current list, or the list just pushed
MergedList(ls_before, ls_after, current_after) ==
    IF Len(ls_after) > Len(ls_before) THEN ls_after[Len(ls_after)]
                                      ELSE current_after

\* C4: closing an append group leaves, in place of the prior list, the pairwise
\* join of the prior list and the append group, of length
\* min(len(prior), len(append)), and adds no list of its own, for any sequence
\* of list and append markers.
C4_AppendZips ==
    [][ClosesAppendGroup =>
         /\ MergedList(lists, lists', current_inputs') =
                ZipLists(current_inputs, append_list)
         /\ Len(lists') <= Len(lists) + 1
         /\ (index <= Len(arguments) /\ argument \in {MarkInputsAppend, MarkFilesAppend})
               => lists' = lists]_vars

\* the effective input sequence: the product of the lists, the one list, or
\* the lines of standard input that are not empty
EffectiveInputs ==
    IF SpooledFromStdin
      THEN LET kept == SelectSeq(stdin, LAMBDA l : l # <<>>) IN
           [i \in 1..Len(kept) |->
               IF inputs_are_commands /\ quote_enabled THEN quote_command(kept[i])
                                                       ELSE kept[i]]
    ELSE IF Len(lists) > 1 THEN CartesianProduct(lists)
    ELSE current_inputs

CeilDiv(t, m) == (t + m - 1) \div m

\* the j-th group of m consecutive inputs, joined by single spaces
Group(inputs, m, j) ==
    JoinSpace(SubSeq(inputs, (j - 1) * m + 1, Min(j * m, Len(inputs))))

C6_NewlineTerminated ==
    pc = "spooled" =>
        /\ Fragment(unprocessed) = <<>>
        /\ Len(TerminatedRecords(unprocessed)) = number_of_arguments

\* Args::parse has returned, with the total or with an error
Parsed == pc \in {"spooled", "NoArguments"}

\* C19: when the command line leaves exactly one list with at least one
\* member (after the appends, whatever the markers), the spool holds that
\* list's members, one per record, in their order, and the total is the
\* list's length.
C19_SingleList ==
    (Len(lists) = 1 /\ max_args < 2 /\ pc \in {"stdin", "spooled", "NoArguments"})
        => /\ SpooledFromLists
           /\ TerminatedRecords(unprocessed) = lists[1]
           /\ Fragment(unprocessed) = <<>>
           /\ number_of_arguments = Len(lists[1])

\* no line of standard input is a logical input
NoStdinInputs == \A i \in 1..Len(stdin) : stdin[i] = <<>>

\* C20: Args::parse fails with NoArguments exactly when the lists, the files
\* and standard input produce no logical input at all; otherwise the total
\* it returns is at least 1 and is the number of logical inputs spooled.
C20_NoArguments ==
    /\ Parsed => (pc = "NoArguments" <=> (lists = <<>> /\ NoStdinInputs))
    /\ pc = "spooled" =>
          /\ number_of_arguments >= 1
          /\ number_of_arguments = Len(WrittenInputs(unprocessed))
(***************************************************************************)
(* The indexed input reader.  Offsets are 0-based as in the source; a Rust *)
(* array a is a sequence here and a[i] is written At(a, i).  A panic (an   *)
(* index out of bounds, a slice whose start is past its end) is the value  *)
(* Panic, and the program then stops with pc = "panic".                    *)
(***************************************************************************)
At(a, i) == a[i + 1]
Panic == [res |-> "panic"]
NUL == "NUL"

\* [usize; BUFFER_SIZE / 2]
IndicesLen == BUFFER_SIZE \div 2


\* DiskBufferReader::buffer(min): the bytes after offset min, the last newline
\* consumed, move to the front of the window and the file fills the rest
DiskBufferReader_buffer(disk_buffer, file, min) ==
    LET unused == IF disk_buffer.capacity = 0 THEN 0
                  ELSE disk_buffer.capacity - (min + 1)
        n      == Min(BUFFER_SIZE - unused, Len(file) - disk_buffer.pos)
    IN [data |-> [i \in 1..BUFFER_SIZE |->
                    IF i <= unused THEN disk_buffer.data[min + 1 + i]
                    ELSE IF i <= unused + n THEN file[disk_buffer.pos + i - unused]
                    ELSE disk_buffer.data[i]],
        capacity |-> unused + n,
        pos |-> disk_buffer.pos + n]

\* the offsets of the newlines among the first bytes_read bytes, in order
NewlineOffsets(data, bytes_read) ==
    LET RECURSIVE Scan(_)
        Scan(i) == IF i >= bytes_read THEN <<>>
                   ELSE (IF At(data, i) = NL THEN <<i>> ELSE <<>>) \o Scan(i + 1)
    IN Scan(0)

\* count_arguments: indices[1..] take the newline offsets of the window; the
\* write indices[newlines] panics past the end of the array
count_arguments(buffer, bytes_read) ==
    LET offsets  == NewlineOffsets(buffer.disk_buffer.data, bytes_read)
        newlines == Len(offsets)
    IN IF newlines >= IndicesLen THEN Panic
       ELSE LET indices == [i \in 1..IndicesLen |->
                              IF 2 <= i /\ i <= newlines + 1 THEN offsets[i - 1]
                                                             ELSE buffer.indices[i]]
            IN [buffer EXCEPT !.indices = indices,
                              !.capacity = At(indices, newlines),
                              !.end = buffer.end + newlines]

\* InputBuffer::new
InputBuffer_new(file) ==
    LET unprocessed_reader ==
            DiskBufferReader_buffer([data |-> [i \in 1..BUFFER_SIZE |-> NUL],
                                     capacity |-> 0, pos |-> 0], file, 0)
        temp == [index |-> 0, start |-> 0, end |-> 0, capacity |-> 0,
                 disk_buffer |-> unprocessed_reader,
                 indices |-> [i \in 1..IndicesLen |-> 0]]
    IN count_arguments(temp, unprocessed_reader.capacity)

\* InputIterator::new
InputIterator_new(file, args) ==
    LET input_buffer == InputBuffer_new(file) IN
    IF input_buffer = Panic THEN Panic
    ELSE [total_arguments |-> args, curr_argument |-> 0, completed |-> 0,
          input_buffer |-> input_buffer,
          start_time |-> now, average_time |-> 0]

\* InputIterator::buffer
buffer(it, file) ==
    LET disk_buffer == DiskBufferReader_buffer(it.input_buffer.disk_buffer, file,
                                               it.input_buffer.capacity)
        shifted == [it.input_buffer EXCEPT !.disk_buffer = disk_buffer,
                                           !.start = it.input_buffer.end + 1]
        counted == count_arguments(shifted, disk_buffer.capacity)
    IN IF counted = Panic THEN Panic
       ELSE [it EXCEPT !.input_buffer = [counted EXCEPT !.index = 0]]

\* &data[start..end], where the range is one of the array
SliceInBounds(start, end) == start <= end /\ end <= BUFFER_SIZE

Slice(data, start, end) == [i \in 1..(end - start) |-> data[start + i]]

\* the match of next_value that ignores the number of completed inputs
update_times_NoDivision(it) ==
    IF it.completed = 0 THEN it.average_time ELSE now - it.start_time

\* "Update times": match self.completed { 0 => (), 1 => now - start_time,
\*                                        _ => (now - start_time) / completed }
update_times(it) ==
    CASE it.completed = 0 -> it.average_time
      [] it.completed = 1 -> now - it.start_time
      [] OTHER            -> (now - it.start_time) \div it.completed

\* Iterator::next and next_value, once the iterator is not depleted: the
\* iterator after the call and the item, or Panic
next_value(it, file) ==
    LET refilled == IF it.curr_argument = it.input_buffer.end THEN buffer(it, file)
                                                              ELSE it
    IN IF refilled = Panic THEN Panic
       ELSE LET ib == refilled.input_buffer IN
            IF ib.index + 1 >= IndicesLen THEN Panic
            ELSE LET end   == At(ib.indices, ib.index + 1)
                     start == IF ib.index = 0 THEN At(ib.indices, ib.index)
                                              ELSE At(ib.indices, ib.index) + 1
                     item  == Slice(ib.disk_buffer.data, start, end)
                 IN IF ~SliceInBounds(start, end) THEN Panic
                    ELSE [it |-> [refilled EXCEPT
                                     !.average_time = update_times(refilled),
                                     !.curr_argument = refilled.curr_argument + 1,
                                     !.input_buffer.index = ib.index + 1],
                          item |-> item]

(***************************************************************************)
(* SpecReader: InputIterator::new and Iterator::next over a spool the      *)
(* spooler can write: newline-terminated records and their number.         *)
(***************************************************************************)
RecordTexts == {<<>>, <<"a">>, <<"b", "c">>, <<"d", "e", "f">>}

SpoolFile(records) == Flatten([i \in 1..Len(records) |-> records[i] \o <<NL>>])

ReaderInit ==
    /\ pc = "main"
    /\ \E records \in SeqsUpTo(RecordTexts, MaxRecords) :
          /\ records # <<>>
          /\ unprocessed = SpoolFile(records)
          /\ number_of_arguments = Len(records)
    /\ shared_input = NoIterator
    /\ yielded = <<>>
    /\ arguments = <<>> /\ stdin = <<>> /\ max_args = 0
    /\ inputs_are_commands = FALSE /\ quote_enabled = FALSE
    /\ mode = "Arguments" /\ index = 0
    /\ current_inputs = <<>> /\ append_list = <<>> /\ lists = <<>>
    /\ comm = <<>> /\ tokens = <<>> /\ exit_code = -1
    /\ NoPool /\ NoArgs /\ NoCmd /\ NoExit /\ NoAux

\* main: InputIterator::new(&unprocessed_path, file, args.ninputs)
ReaderNew ==
    /\ pc = "main"
    /\ LET it == InputIterator_new(unprocessed, number_of_arguments) IN
       IF it = Panic THEN pc' = "panic" /\ UNCHANGED shared_input
                     ELSE pc' = "iterate" /\ shared_input' = it
    /\ UNCHANGED <<spoolVars, yielded, tokVars, poolVars, argsVars, cmdVars,
                   exitVars, auxVars>>

\* Iterator::next returning an item
ReaderNext ==
    /\ pc = "iterate"
    /\ shared_input.curr_argument # shared_input.total_arguments
    /\ LET r == next_value(shared_input, unprocessed) IN
       IF r = Panic THEN pc' = "panic" /\ UNCHANGED <<shared_input, yielded>>
       ELSE /\ shared_input' = r.it
            /\ yielded' = Append(yielded, r.item)
            /\ pc' = pc
    /\ UNCHANGED <<spoolVars, tokVars, poolVars, argsVars, cmdVars, exitVars, auxVars>>

\* Iterator::next returning None
ReaderDepleted ==
    /\ pc \in {"iterate", "depleted"}
    /\ shared_input.curr_argument = shared_input.total_arguments
    /\ pc' = "depleted"
    /\ UNCHANGED <<spoolVars, readerVars, tokVars, poolVars, argsVars,
                          cmdVars, exitVars, auxVars>>

ReaderStep == ReaderNew \/ ReaderNext \/ ReaderDepleted

SpecReader == ReaderInit /\ [][ReaderStep]_vars

\* C7: iterating the reader over the spool yields exactly `total` items, the
\* i-th equal to the i-th record without its newline, also past window
\* refills, and then None: the items returned so far are always the first
\* records of the spool, the iterator never panics, and None comes only after
\* all `total` of them.
C7_ReaderYieldsRecords ==
    /\ pc # "panic"
    /\ Len(yielded) <= number_of_arguments
    /\ yielded = SubSeq(TerminatedRecords(unprocessed), 1, Len(yielded))
    /\ pc = "depleted" => Len(yielded) = number_of_arguments

\* the window InputBuffer::new reads first, and the one a refill reads
FirstWindow(file) ==
    DiskBufferReader_buffer([data |-> [i \in 1..BUFFER_SIZE |-> NUL],
                             capacity |-> 0, pos |-> 0], file, 0)

RefillWindow(it, file) ==
    DiskBufferReader_buffer(it.input_buffer.disk_buffer, file,
                            it.input_buffer.capacity)

\* the number of newline offsets count_arguments records for a window
Recorded(window) == Len(NewlineOffsets(window.data, window.capacity))

\* C33: for every spool the spooler writes and every window fill or refill,
\* the newline offsets recorded for the window fit the index array, whose
\* entry 0 is reserved: the first window of the spool and the window of the
\* refill that the next call of the iterator makes hold at most
\* IndicesLen - 1 newlines, and the entry the iterator reads next is one of
\* the array.
C33_IndicesInBounds ==
    /\ pc = "main" => Recorded(FirstWindow(unprocessed)) <= IndicesLen - 1
    /\ (/\ pc = "iterate"
        /\ shared_input.curr_argument # shared_input.total_arguments)
       => IF shared_input.curr_argument = shared_input.input_buffer.end
          THEN Recorded(RefillWindow(shared_input, unprocessed)) <= IndicesLen - 1
          ELSE shared_input.input_buffer.index + 1 <= IndicesLen - 1

(***************************************************************************)
(* The tokenizer.  A str slice s[a..b] is StrSlice(s, a, b).  The numbers  *)
(* of the templates drawn below have at most two digits, so the overflow   *)
(* of parse::<usize> is out of reach; the capacity of 128 tokens is        *)
(* reached by the long templates of SpecRound.                             *)
(***************************************************************************)
StrSlice(s, a, b) == SubSeq(s, a + 1, b)

Digits == <<"0", "1", "2", "3", "4", "5", "6", "7", "8", "9">>

\* char::is_numeric on an ASCII byte
is_numeric(x) == \E d \in 1..10 : Digits[d] = x

DigitValue(x) == (CHOOSE d \in 1..10 : Digits[d] = x) - 1

\* str::parse::<usize> of a string of digits
RECURSIVE parse_usize(_)
parse_usize(digits) ==
    IF digits = <<>> THEN 0
    ELSE parse_usize(SubSeq(digits, 1, Len(digits) - 1)) * 10
         + DigitValue(digits[Len(digits)])

\* usize::to_string
RECURSIVE to_string(_)
to_string(n) ==
    IF n < 10 THEN <<Digits[n + 1]>>
    ELSE to_string(n \div 10) \o <<Digits[(n % 10) + 1]>>

\* the offset past the last byte c of s, 0 when there is none
LastIndexOf(s, c) ==
    IF \E i \in 1..Len(s) : s[i] = c
    THEN CHOOSE i \in 1..Len(s) : s[i] = c /\ \A j \in (i + 1)..Len(s) : s[j] # c
    ELSE 0

\* tokenizer::functions, after the glossary of the specification
basename(input) == SubSeq(input, LastIndexOf(input, "/") + 1, Len(input))

dirname(input) ==
    IF LastIndexOf(input, "/") = 0 THEN <<>>
    ELSE SubSeq(input, 1, LastIndexOf(input, "/") - 1)

remove_extension(input) ==
    IF LastIndexOf(input, ".") > LastIndexOf(input, "/")
    THEN SubSeq(input, 1, LastIndexOf(input, ".") - 1)
    ELSE input

remove_pattern(input, pat) ==
    IF /\ Len(pat) <= Len(input)
       /\ SubSeq(input, Len(input) - Len(pat) + 1, Len(input)) = pat
    THEN SubSeq(input, 1, Len(input) - Len(pat))
    ELSE input

\* enum Token
Argument(text)     == [token |-> "Argument", text |-> text]
BaseAndSuffix(pat) == [token |-> "BaseAndSuffix", pat |-> pat]
RemoveSuffix(pat)  == [token |-> "RemoveSuffix", pat |-> pat]
BaseAndExt         == [token |-> "BaseAndExt"]
Basename           == [token |-> "Basename"]
Dirname            == [token |-> "Dirname"]
Job                == [token |-> "Job"]
Placeholder        == [token |-> "Placeholder"]
RemoveExtension    == [token |-> "RemoveExtension"]
Slot               == [token |-> "Slot"]

\* Result<Option<Token>, TokenErr>
Some(token) == [res |-> "Some", token |-> token]
None        == [res |-> "None"]
OutOfBounds == [res |-> "OutOfBounds"]

\* Result<String, TokenErr>
Ok(text) == [res |-> "Ok", text |-> text]

\* BufRead::lines
CR == "\r"

\* a line of BufRead::lines: the newline is gone, and so is a carriage
\* return right before it
StripCR(line) ==
    IF line # <<>> /\ line[Len(line)] = CR THEN SubSeq(line, 1, Len(line) - 1)
    ELSE line

StripAll(records) == [i \in 1..Len(records) |-> StripCR(records[i])]

lines(file) == StripAll(WrittenInputs(file))

\* Number::into_argument: nth(id - 1).unwrap() panics when the file has no
\* line id, and so does the unreachable!() of an Argument, Job or Slot token
into_argument(id, token, file) ==
    IF id = 0 \/ id > Len(lines(file)) THEN Panic
    ELSE LET input == lines(file)[id] IN
         CASE token.token = "Argument"        -> Panic
           [] token.token = "Basename"        -> Ok(basename(input))
           [] token.token = "BaseAndExt"      -> Ok(basename(remove_extension(input)))
           [] token.token = "BaseAndSuffix"   -> Ok(basename(remove_pattern(input, token.pat)))
           [] token.token = "Dirname"         -> Ok(dirname(input))
           [] token.token = "Job"             -> Panic
           [] token.token = "Placeholder"     -> Ok(input)
           [] token.token = "RemoveExtension" -> Ok(remove_extension(input))
           [] token.token = "RemoveSuffix"    -> Ok(remove_pattern(input, token.pat))
           [] token.token = "Slot"            -> Panic

\* pattern.bytes().take_while(is_numeric).count()
RECURSIVE TakeWhileNumeric(_)
TakeWhileNumeric(pattern) ==
    IF pattern # <<>> /\ is_numeric(Head(pattern))
    THEN 1 + TakeWhileNumeric(Tail(pattern)) ELSE 0

\* Ok(Some(Token::Argument(Cow::Owned(argument)))) of an into_argument result
OwnedArgument(r) == IF r = Panic THEN Panic ELSE Some(Argument(r.text))

RECURSIVE match_token(_, _, _)
match_token(pattern, file, nargs) ==
    CASE pattern = <<".">>      -> Some(RemoveExtension)
      [] pattern = <<"#">>      -> Some(Job)
      [] pattern = <<"%">>      -> Some(Slot)
      [] pattern = <<"/">>      -> Some(Basename)
      [] pattern = <<"/", "/">> -> Some(Dirname)
      [] pattern = <<"/", ".">> -> Some(BaseAndExt)
      [] pattern = <<"#", "#">> -> Some(Argument(to_string(nargs)))
      [] OTHER ->
         IF Len(pattern) > 1 /\ pattern[1] = "^"
         THEN Some(RemoveSuffix(StrSlice(pattern, 1, Len(pattern))))
         ELSE IF Len(pattern) > 2 /\ SubSeq(pattern, 1, 2) = <<"/", "^">>
         THEN Some(BaseAndSuffix(StrSlice(pattern, 2, Len(pattern))))
         ELSE LET ndigits == TakeWhileNumeric(pattern)
                  nchars  == ndigits + (Len(pattern) - ndigits)
                  number  == parse_usize(StrSlice(pattern, 0, ndigits))
              IN IF ndigits = 0 THEN None
                 ELSE IF ndigits = nchars
                 THEN IF number = 0 \/ number > nargs THEN OutOfBounds
                      ELSE OwnedArgument(into_argument(number, Placeholder, file))
                 ELSE LET inner == match_token(StrSlice(pattern, ndigits, Len(pattern)),
                                               file, nargs)
                      IN IF inner \in {Panic, OutOfBounds} THEN inner
                         ELSE IF inner \in {None, Some(Job), Some(Slot)} THEN None
                         ELSE OwnedArgument(into_argument(number, inner.token, file))

\* Token::Argument(Cow::Borrowed(&template[pattern_start..id+1]))
UnmatchedPattern_Inner(template, pattern_start, id) ==
    Argument(StrSlice(template, pattern_start + 1, id))

UnmatchedPattern(template, pattern_start, id) ==
    Argument(StrSlice(template, pattern_start, id + 1))

\* one turn of the loop of tokenize over the byte at offset id
TokenizeByte(template, file, nargs, st, id) ==
    LET character == At(template, id) IN
    IF character = "{" /\ ~st.pattern_matching
    THEN [st EXCEPT !.pattern_matching = TRUE,
                    !.pattern_start = id,
                    !.argument_matching = FALSE,
                    !.tokens = IF st.argument_matching
                               THEN Append(@, Argument(StrSlice(template, st.argument_start, id)))
                               ELSE @]
    ELSE IF character = "}" /\ st.pattern_matching
    THEN IF id = st.pattern_start + 1
         THEN [st EXCEPT !.pattern_matching = FALSE,
                         !.tokens = Append(@, Placeholder)]
         ELSE LET m == match_token(StrSlice(template, st.pattern_start + 1, id),
                                   file, nargs)
              IN IF m \in {Panic, OutOfBounds} THEN m
                 ELSE [st EXCEPT !.pattern_matching = FALSE,
                                 !.tokens = Append(@,
                                    IF m = None
                                    THEN UnmatchedPattern(template, st.pattern_start, id)
                                    ELSE m.token)]
    ELSE IF ~st.pattern_matching /\ ~st.argument_matching
    THEN [st EXCEPT !.argument_matching = TRUE, !.argument_start = id]
    ELSE st

\* tokens: &mut ArrayVec<[Token; 128]>
TokenCapacity == 128

\* what ArrayVec::push does with a token when the vector is full: it
\* panics, or it hands the token back and the vector stays as it is,
\* depending on the version of the arrayvec crate the program is built with
ArrayVecFull == {"panic", "drop"}

\* the state after a push that found the vector full
Full(st) ==
    IF st \in {Panic, OutOfBounds} THEN st
    ELSE IF Len(st.tokens) <= TokenCapacity THEN st
    ELSE IF st.full = "panic" THEN Panic
    ELSE [st EXCEPT !.tokens = SubSeq(@, 1, TokenCapacity)]

\* for (id, character) in template.bytes().enumerate(), bytes from..to-1 in
\* order, the first half of the range and then the second
RECURSIVE TokenizeLoop(_, _, _, _, _, _)
TokenizeLoop(template, file, nargs, st, from, to) ==
    IF st \in {Panic, OutOfBounds} \/ from = to THEN st
    ELSE IF to = from + 1
    THEN Full(TokenizeByte(template, file, nargs, st, from))
    ELSE TokenizeLoop(template, file, nargs,
             TokenizeLoop(template, file, nargs, st, from, (from + to) \div 2),
             (from + to) \div 2, to)

\* the push of what is left after the last byte
Leftover(template, st) ==
    IF st \in {Panic, OutOfBounds} THEN st
    ELSE IF st.pattern_matching
    THEN Full([st EXCEPT !.tokens = Append(@,
            Argument(StrSlice(template, st.pattern_start, Len(template))))])
    ELSE IF st.argument_matching
    THEN Full([st EXCEPT !.tokens = Append(@,
            Argument(StrSlice(template, st.argument_start, Len(template))))])
    ELSE st

\* Ok(()) with the tokens pushed, or the error
Tokenized(last) ==
    IF last \in {Panic, OutOfBounds} THEN last
    ELSE [res |-> "Ok", tokens |-> last.tokens]

\* tokenize: the tokens pushed, or the error, or Panic
tokenize(template, file, nargs, full) ==
    Tokenized(Leftover(template,
        TokenizeLoop(template, file, nargs,
                     [res |-> "Ok", full |-> full,
                      pattern_matching |-> FALSE, pattern_start |-> 0,
                      argument_matching |-> FALSE, argument_start |-> 0,
                      tokens |-> <<>>], 0, Len(template))))

(***************************************************************************)
(* SpecTok: main tokenizes the command template over a spool.  A template  *)
(* is up to MaxSegments pieces: literal text, a `{...}` of every kind of   *)
(* the grammar, positional ones with numbers in and out of range, and an   *)
(* opening brace that nothing closes.                                      *)
(***************************************************************************)
InnerSpecs == {<<>>, <<".">>, <<"/">>, <<"/", "/">>, <<"/", ".">>, <<"#">>, <<"%">>,
               <<"#", "#">>, <<"^", "s">>, <<"/", "^", "s">>, <<"q">>}

OtherSpecs == {<<"^">>, <<"/", "^">>, <<"{">>}

Numbers == {<<"0">>, <<"1">>, <<"1", "1">>}

PositionalSpecs == {<<>>, <<".">>, <<"/">>, <<"#">>, <<"%">>, <<"#", "#">>,
                    <<"^", "s">>, <<"q">>}

Segments ==
    {<<"x">>, <<"}">>, <<"{", "a">>}
    \cup {<<"{">> \o spec \o <<"}">> : spec \in InnerSpecs \cup OtherSpecs}
    \cup {<<"{">> \o n \o spec \o <<"}">> : n \in Numbers, spec \in PositionalSpecs}

Templates == {Flatten(segs) : segs \in SeqsUpTo(Segments, MaxSegments)}

PathRecord == <<"d", "/", "e", ".", "s">>
FileRecord == <<"a", ".", "s">>

TokSpools == {<<PathRecord>>, [i \in 1..11 |-> FileRecord]}

TokInit ==
    /\ pc = "tokenize"
    /\ comm \in Templates
    /\ NoAux
    /\ \E records \in TokSpools :
          /\ unprocessed = SpoolFile(records)
          /\ number_of_arguments = Len(records)
          /\ shared_input = InputIterator_new(SpoolFile(records), Len(records))
    /\ tokens = <<>>
    /\ exit_code = -1
    /\ yielded = <<>>
    /\ arguments = <<>> /\ stdin = <<>> /\ max_args = 0
    /\ inputs_are_commands = FALSE /\ quote_enabled = FALSE
    /\ mode = "Arguments" /\ index = 0
    /\ current_inputs = <<>> /\ append_list = <<>> /\ lists = <<>>
    /\ NoPool /\ NoArgs /\ NoCmd /\ NoExit

\* main: tokenize(&mut args.arguments, static_comm, &unprocessed_path,
\* args.ninputs), exit(1) on an error; a panic of the main thread exits 101.
\* Every token takes at least one byte of the template, so the vector can
\* only be full for a template of more than TokenCapacity bytes.
Tokenize ==
    /\ pc = "tokenize"
    /\ \E full \in IF Len(comm) > TokenCapacity THEN ArrayVecFull ELSE {"panic"} :
       LET r == tokenize(comm, unprocessed, number_of_arguments, full) IN
       IF r = Panic THEN pc' = "panic" /\ exit_code' = 101 /\ UNCHANGED tokens
       ELSE IF r = OutOfBounds THEN pc' = "exit" /\ exit_code' = 1 /\ UNCHANGED tokens
       ELSE pc' = "tokenized" /\ tokens' = r.tokens /\ UNCHANGED exit_code
    /\ UNCHANGED <<spoolVars, readerVars, comm, poolVars, argsVars, cmdVars,
                   exitVars, auxVars>>

TokNext == Tokenize

SpecTok == TokInit /\ [][TokNext]_vars
(***************************************************************************)
(* The grammar of templates, read off a template without the tokenizer: a  *)
(* `{...}` runs from the first opening brace to the first closing brace    *)
(* after it.                                                               *)
(***************************************************************************)
FirstIndex(s, c, from) ==
    IF \E i \in from..Len(s) : s[i] = c
    THEN CHOOSE i \in from..Len(s) : s[i] = c /\ \A j \in from..(i - 1) : s[j] # c
    ELSE 0

\* the leading decimal of a placeholder spec and what follows it
LeadingDigits(spec) ==
    CHOOSE k \in 0..Len(spec) :
        /\ \A i \in 1..k : is_numeric(spec[i])
        /\ k < Len(spec) => ~is_numeric(spec[k + 1])

IsPositional(spec) == LeadingDigits(spec) > 0

PositionalNumber(spec) == parse_usize(SubSeq(spec, 1, LeadingDigits(spec)))

PositionalInner(spec) == SubSeq(spec, LeadingDigits(spec) + 1, Len(spec))

PerJobSpecs == {<<"#">>, <<"%">>, <<"#", "#">>}

\* what the table of placeholder specs makes of the text between the braces
GrammarToken(spec, total) ==
    CASE spec = <<>>           -> Placeholder
      [] spec = <<".">>        -> RemoveExtension
      [] spec = <<"/">>        -> Basename
      [] spec = <<"/", "/">>   -> Dirname
      [] spec = <<"/", ".">>   -> BaseAndExt
      [] spec = <<"#">>        -> Job
      [] spec = <<"%">>        -> Slot
      [] spec = <<"#", "#">>   -> Argument(to_string(total))
      [] OTHER ->
         IF Len(spec) > 1 /\ Head(spec) = "^" THEN RemoveSuffix(Tail(spec))
         ELSE IF Len(spec) > 2 /\ SubSeq(spec, 1, 2) = <<"/", "^">>
              THEN BaseAndSuffix(Tail(Tail(spec)))
         ELSE IF IsPositional(spec)
              THEN [token |-> "Indexed", n |-> PositionalNumber(spec),
                    inner |-> PositionalInner(spec),
                    text |-> <<"{">> \o spec \o <<"}">>]
         ELSE Argument(<<"{">> \o spec \o <<"}">>)

RECURSIVE Grammar(_, _)
Grammar(template, total) ==
    LET open  == FirstIndex(template, "{", 1)
        close == FirstIndex(template, "}", open + 1)
        text  == IF open > 1 THEN <<Argument(SubSeq(template, 1, open - 1))>> ELSE <<>>
    IN IF template = <<>> THEN <<>>
       ELSE IF open = 0 THEN <<Argument(template)>>
       ELSE IF close = 0
            THEN text \o <<Argument(SubSeq(template, open, Len(template)))>>
       ELSE text \o <<GrammarToken(SubSeq(template, open + 1, close - 1), total)>>
                 \o Grammar(SubSeq(template, close + 1, Len(template)), total)

\* the positional placeholders of the template
Positionals(template, total) ==
    {Grammar(template, total)[i] : i \in
        {j \in 1..Len(Grammar(template, total)) :
            Grammar(template, total)[j].token = "Indexed"}}

OutOfRange(p, total) == p.n = 0 \/ p.n > total

C9_OutOfBoundsError ==
    (/\ pc # "tokenize"
     /\ \E p \in Positionals(comm, number_of_arguments) :
            OutOfRange(p, number_of_arguments))
    => (pc = "exit" /\ exit_code = 1 /\ tokens = <<>>)

\* C10: when every positional placeholder of the template is in range, one
\* whose inner spec is `#`, `%` or `##` does not stop tokenization and stands
\* in the tokens as one LITERAL holding the whole `{...}` text.
C10_PerJobInnerIsLiteral ==
    LET grammar == Grammar(comm, number_of_arguments) IN
    (/\ pc # "tokenize"
     /\ \A p \in Positionals(comm, number_of_arguments) :
            ~OutOfRange(p, number_of_arguments)
     /\ \E p \in Positionals(comm, number_of_arguments) : p.inner \in PerJobSpecs)
    => /\ pc = "tokenized"
       /\ Len(tokens) = Len(grammar)
       /\ \A i \in 1..Len(grammar) :
             (grammar[i].token = "Indexed" /\ grammar[i].inner \in PerJobSpecs)
                => tokens[i] = Argument(grammar[i].text)

\* C15: when tokenization returns the out-of-range error for a positional
\* placeholder the program exits with code 2 (and no job is dispatched: it
\* exits before any worker is spawned).
C15_OutOfRangeExitsTwo ==
    pc = "exit" => (exit_code = 2 /\ threads = <<>>)
(***************************************************************************)
(* SpecExec: the command builder.  A ParallelCommand holds the slot        *)
(* number, the job number and the input of one job; exec renders the       *)
(* tokens of the template into the argument string, appends the input      *)
(* when the template names none, and spawns the child; in pipe mode it     *)
(* writes the input to the child's stdin instead.                          *)
(***************************************************************************)
PIPE_IS_ENABLED == "PIPE_IS_ENABLED"

\* append_argument: `placeholder_exists`
placeholder_exists(command_template) ==
    \E i \in 1..Len(command_template) :
        command_template[i].token \in
            {"BaseAndExt", "Basename", "Dirname", "Job", "Placeholder",
             "RemoveExtension", "RemoveSuffix", "Slot"}

append_argument(args, command_template, input) ==
    IF ~placeholder_exists(command_template) THEN args \o <<SP>> \o input
                                             ELSE args

\* one arm of the match of build_arguments, pipe mode
PushPipe(cmd, arg) ==
    CASE arg.token = "Argument" -> arg.text
      [] arg.token = "Job"      -> cmd.job_no
      [] arg.token = "Slot"     -> cmd.slot_no
      [] OTHER                  -> <<>>

\* one arm of the match of build_arguments, outside pipe mode
PushToken(cmd, arg) ==
    CASE arg.token = "Argument"        -> arg.text
      [] arg.token = "Basename"        -> basename(cmd.input)
      [] arg.token = "BaseAndExt"      -> basename(remove_extension(cmd.input))
      [] arg.token = "BaseAndSuffix"   -> basename(remove_pattern(cmd.input, arg.pat))
      [] arg.token = "Dirname"         -> dirname(cmd.input)
      [] arg.token = "Job"             -> cmd.job_no
      [] arg.token = "Placeholder"     -> cmd.input
      [] arg.token = "RemoveExtension" -> remove_extension(cmd.input)
      [] arg.token = "RemoveSuffix"    -> remove_pattern(cmd.input, arg.pat)
      [] arg.token = "Slot"            -> cmd.slot_no

build_arguments(cmd, fl, command_template, args) ==
    args \o Flatten([i \in 1..Len(command_template) |->
                        IF PIPE_IS_ENABLED \in fl
                        THEN PushPipe(cmd, command_template[i])
                        ELSE PushToken(cmd, command_template[i])])

\* the input alone, no newline after it
WriteStdin_NoNewline(input) == input

\* exec, pipe mode: stdin.write(self.input.as_bytes()), stdin.write(b"\n")
WriteStdin(input) == input \o <<NL>>

\* the tokens a template may hold
MaxTokens == 2

TokenSet ==
    {Argument(<<"e", " ">>), BaseAndSuffix(<<".", "s">>), RemoveSuffix(<<".", "s">>),
     BaseAndExt, Basename, Dirname, Job, Placeholder, RemoveExtension, Slot}

CommandTemplates == SeqsUpTo(TokenSet, MaxTokens)

\* the jobs: a path with an extension and a bare word, job numbers of one
\* and two digits
Commands ==
    [slot_no : {to_string(1), to_string(2)},
     job_no  : {to_string(1), to_string(10)},
     input   : {PathRecord, <<"a">>}]

ExecInit ==
    /\ pc = "exec"
    /\ tokens \in CommandTemplates
    /\ flags \in {{}, {PIPE_IS_ENABLED}}
    /\ command \in Commands
    /\ command_buffer = <<>>
    /\ child_stdin = NoStdin
    /\ comm = <<>> /\ exit_code = -1
    /\ unprocessed = <<>> /\ number_of_arguments = 0
    /\ shared_input = NoIterator
    /\ yielded = <<>>
    /\ arguments = <<>> /\ stdin = <<>> /\ max_args = 0
    /\ inputs_are_commands = FALSE /\ quote_enabled = FALSE
    /\ mode = "Arguments" /\ index = 0
    /\ current_inputs = <<>> /\ append_list = <<>> /\ lists = <<>>
    /\ NoPool /\ NoArgs /\ NoExit /\ NoAux

ExecFrame == UNCHANGED <<spoolVars, readerVars, tokVars, poolVars, argsVars,
                         exitVars, auxVars, flags, command>>

\* ParallelCommand::exec, the spawn succeeding: outside pipe mode the input
\* is appended; in pipe mode it is written to the child's stdin, which is
\* then dropped
ExecSpawn ==
    /\ pc = "exec"
    /\ LET args == build_arguments(command, flags, tokens, <<>>) IN
       IF PIPE_IS_ENABLED \notin flags
         THEN /\ command_buffer' = append_argument(args, tokens, command.input)
              /\ UNCHANGED child_stdin
         ELSE /\ command_buffer' = args
              /\ child_stdin' = [bytes |-> WriteStdin(command.input),
                                 closed |-> TRUE]
    /\ pc' = "spawned"
    /\ ExecFrame

\* ParallelCommand::exec, get_command_output returning an error
ExecSpawnErr ==
    /\ pc = "exec"
    /\ LET args == build_arguments(command, flags, tokens, <<>>) IN
       command_buffer' = IF PIPE_IS_ENABLED \notin flags
                           THEN append_argument(args, tokens, command.input)
                           ELSE args
    /\ pc' = "CommandErr"
    /\ UNCHANGED child_stdin
    /\ ExecFrame

\* the worker waits for the child that exec returned
ChildWait ==
    /\ pc = "spawned"
    /\ pc' = "waited"
    /\ UNCHANGED <<command_buffer, child_stdin>>
    /\ ExecFrame

ExecNext ==
    \/ ExecSpawn
    \/ ExecSpawnErr
    \/ ChildWait

SpecExec == ExecInit /\ [][ExecNext]_vars

\* the token kinds that take their text from the input, and the two that
\* take it from the job
InputKinds ==
    {"Placeholder", "Basename", "Dirname", "BaseAndExt", "RemoveExtension",
     "RemoveSuffix", "BaseAndSuffix"}

JobKinds == {"Job", "Slot"}

Kinds(command_template) ==
    {command_template[i].token : i \in 1..Len(command_template)}

\* the template rendered for the job, nothing appended
Rendered == build_arguments(command, flags, tokens, <<>>)

\* C11: outside pipe mode the builder appends a space and the raw input to
\* the rendered command exactly when the template holds none of PLACEHOLDER,
\* BASENAME, DIRNAME, BASE_AND_EXT, REMOVE_EXTENSION, REMOVE_SUFFIX,
\* BASE_AND_SUFFIX, JOB and SLOT.
C11_AppendsWhenNoPlaceholder ==
    (pc # "exec" /\ PIPE_IS_ENABLED \notin flags) =>
        command_buffer =
            IF Kinds(tokens) \cap (InputKinds \cup JobKinds) = {}
              THEN Rendered \o <<SP>> \o command.input
              ELSE Rendered

\* the texts pipe mode renders: the literals, and the job and slot numbers
PipeText(arg) ==
    IF arg.token = "Argument" THEN arg.text
    ELSE IF arg.token = "Job" THEN command.job_no
    ELSE IF arg.token = "Slot" THEN command.slot_no
    ELSE <<>>

\* C12: in pipe mode the command is the LITERAL texts and the decimal job
\* and slot numbers only: a token derived from the input renders nothing and
\* the input is not appended; the input is written to the child's stdin
\* followed by one newline, and that stdin is closed before the child is
\* waited on.
C12_PipeMode ==
    (pc # "exec" /\ PIPE_IS_ENABLED \in flags) =>
        /\ command_buffer = Flatten([i \in 1..Len(tokens) |-> PipeText(tokens[i])])
        /\ pc \in {"spawned", "waited"} =>
              child_stdin.bytes = command.input \o <<NL>>
        /\ pc = "waited" => child_stdin.closed

\* `e {}{#}` in pipe mode for job 10 with input d/e.s: the command is
\* `e 10`, the child has read `d/e.s` and a newline and has been waited on
C12_Witness ==
    /\ pc = "waited" /\ PIPE_IS_ENABLED \in flags
    /\ Kinds(tokens) \cap InputKinds # {} /\ "Job" \in Kinds(tokens)
    /\ command.input = PathRecord
    /\ command_buffer = to_string(10)
    /\ child_stdin = [bytes |-> PathRecord \o <<NL>>, closed |-> TRUE]
(***************************************************************************)
(* SpecDry: dry_run.  Instead of running the commands, main prints the     *)
(* command of every input of the reader, one per line, shell-quoted when   *)
(* the SHELL_QUOTE flag is on.                                             *)
(***************************************************************************)
SHELL_QUOTE == "SHELL_QUOTE"

\* dry_run: let slot = "{SLOT_ID}"
SLOT_ID == <<"{", "S", "L", "O", "T", "_", "I", "D", "}">>

\* the grave accent, which a string of this module cannot hold
GRAVE == "GRAVE"

\* the characters shell_quote escapes
NeedsEscaping ==
    {"$", " ", "\\", ">", "<", "^", "&", "#", "!", "*", "'", "\"", GRAVE, "~", "{",
     "}", "[", "]", "(", ")", ";", "|", "?"}

\* the same but a space is left as it is
shell_quote_KeepSpace(text) ==
    IF \E i \in 1..Len(text) : text[i] \in NeedsEscaping
      THEN Some(Flatten([i \in 1..Len(text) |->
                   IF text[i] \in NeedsEscaping \ {SP} THEN <<"\\", text[i]>>
                                                        ELSE <<text[i]>>]))
      ELSE None

\* shell_quote: Some(the command with a backslash before every such
\* character), None when there is none
shell_quote(text) ==
    IF \E i \in 1..Len(text) : text[i] \in NeedsEscaping
      THEN Some(Flatten([i \in 1..Len(text) |->
                   IF text[i] \in NeedsEscaping THEN <<"\\", text[i]>>
                                                ELSE <<text[i]>>]))
      ELSE None

\* dry_run: pipe_action, what is written for a command
pipe_action(fl, text) ==
    IF SHELL_QUOTE \in fl
      THEN IF shell_quote(text) # None THEN shell_quote(text).token ELSE text
      ELSE text

\* dry_run: the line of the item `inputs.enumerate()` numbers job_id
DryRunLine(fl, command_template, job_id, input) ==
    LET cmd  == [slot_no |-> SLOT_ID, job_no |-> to_string(job_id),
                 input |-> input]
        args == build_arguments(cmd, fl, command_template, <<>>)
    IN pipe_action(fl,
           IF PIPE_IS_ENABLED \notin fl
             THEN append_argument(args, command_template, input)
             ELSE args) \o <<NL>>

\* the spools dry_run reads
DrySpools ==
    {<<ValA, ValB>>, <<PathRecord, ValB>>, <<ValB, ValA, ValA>>,
     <<<<"$", "\\", "x">>>>}

DryInit ==
    /\ pc = "dry_run"
    /\ tokens \in CommandTemplates
    /\ flags \in SUBSET {PIPE_IS_ENABLED, SHELL_QUOTE}
    /\ NoAux
    /\ \E records \in DrySpools :
          /\ unprocessed = SpoolFile(records)
          /\ number_of_arguments = Len(records)
          /\ shared_input = InputIterator_new(SpoolFile(records), Len(records))
    /\ yielded = <<>>
    /\ command = NoCommand /\ command_buffer = <<>> /\ child_stdin = NoStdin
    /\ comm = <<>> /\ exit_code = -1
    /\ arguments = <<>> /\ stdin = <<>> /\ max_args = 0
    /\ inputs_are_commands = FALSE /\ quote_enabled = FALSE
    /\ mode = "Arguments" /\ index = 0
    /\ current_inputs = <<>> /\ append_list = <<>> /\ lists = <<>>
    /\ NoPool /\ NoArgs /\ NoExit

DryFrame == UNCHANGED <<spoolVars, tokVars, argsVars, cmdVars, exitVars, auxVars, ncores,
                        mutex, threads, input_rx, pending, next_to_emit,
                        acquired>>

\* one turn of `for (job_id, input) in inputs.enumerate()`: enumerate
\* counts the items from 0
DryRunWrite ==
    /\ pc = "dry_run"
    /\ shared_input.curr_argument # shared_input.total_arguments
    /\ LET r == next_value(shared_input, unprocessed) IN
       IF r = Panic THEN pc' = "panic" /\ UNCHANGED <<shared_input, yielded, stdout>>
       ELSE /\ shared_input' = r.it
            /\ yielded' = Append(yielded, r.item)
            /\ stdout' = stdout \o DryRunLine(flags, tokens,
                                              Len(yielded), r.item)
            /\ pc' = pc
    /\ DryFrame

\* the reader is depleted: dry_run returns
DryRunEnd ==
    /\ pc = "dry_run"
    /\ shared_input.curr_argument = shared_input.total_arguments
    /\ pc' = "dry_done"
    /\ UNCHANGED <<shared_input, yielded, stdout>>
    /\ DryFrame

DryNext ==
    \/ DryRunWrite
    \/ DryRunEnd

SpecDry == DryInit /\ [][DryNext]_vars

\* the line of job k (from 1) as the builder renders it with slot_no
\* `{SLOT_ID}`
ExpectedLine(k, input) ==
    LET cmd  == [slot_no |-> SLOT_ID, job_no |-> to_string(k), input |-> input]
        args == build_arguments(cmd, flags, tokens, <<>>)
    IN pipe_action(flags,
           IF PIPE_IS_ENABLED \notin flags
             THEN append_argument(args, tokens, input)
             ELSE args)

\* C13: dry-run writes one line per logical input, in input order: the k-th
\* line is the command of the k-th input with the job number k (from 1),
\* SLOT rendered as `{SLOT_ID}`, and the input substituted or appended as in
\* a real run.
C13_DryRunLines ==
    pc \in {"dry_run", "dry_done"} =>
        LET out == TerminatedRecords(stdout) IN
        /\ Fragment(stdout) = <<>>
        /\ Len(out) = Len(yielded)
        /\ \A k \in 1..Len(out) :
              /\ yielded[k] = WrittenInputs(unprocessed)[k]
              /\ out[k] = ExpectedLine(k, yielded[k])
        /\ pc = "dry_done" => Len(out) = number_of_arguments

\* the characters of the SHELL_QUOTE scheme
QuotedCharacters ==
    {"$", "\\", ">", "<", "^", "&", "#", "!", "*", "'", "\"", GRAVE, "~", "{", "}",
     "[", "]", "(", ")", ";", "|", "?", SP}

\* a backslash before every character of the scheme, the rest unchanged
Escape(text) ==
    Flatten([i \in 1..Len(text) |->
                IF text[i] \in QuotedCharacters THEN <<"\\", text[i]>>
                                                ELSE <<text[i]>>])

\* the backslash before each escaped character removed
RECURSIVE Unescape(_)
Unescape(text) ==
    IF text = <<>> THEN <<>>
    ELSE IF Head(text) = "\\" /\ Len(text) >= 2
      THEN <<text[2]>> \o Unescape(Tail(Tail(text)))
    ELSE <<Head(text)>> \o Unescape(Tail(text))

\* the k-th command line as dry-run prints it without SHELL_QUOTE
UnquotedLine(k) ==
    LET line == DryRunLine(flags \ {SHELL_QUOTE}, tokens, k - 1, yielded[k])
    IN SubSeq(line, 1, Len(line) - 1)

\* C21: with SHELL_QUOTE set, every line of the dry-run output is the
\* command line with one backslash before exactly the characters of the
\* scheme and every other character unchanged, so removing those backslashes
\* gives the unquoted command line back; a line with none of these
\* characters is printed unchanged.
C21_ShellQuotedLines ==
    (pc \in {"dry_run", "dry_done"} /\ SHELL_QUOTE \in flags) =>
        LET out == TerminatedRecords(stdout) IN
        \A k \in 1..Len(out) :
           /\ out[k] = Escape(UnquotedLine(k))
           /\ Unescape(out[k]) = UnquotedLine(k)
           /\ (\A i \in 1..Len(UnquotedLine(k)) :
                   UnquotedLine(k)[i] \notin QuotedCharacters)
                 => out[k] = UnquotedLine(k)

\* `{}` over the inputs a and b ': the first line is printed unchanged, the
\* second with its space and its quote escaped; and a line with a dollar
\* and a backslash
C21_Witness ==
    /\ pc = "dry_done" /\ flags = {SHELL_QUOTE}
    /\ \/ /\ tokens = <<Placeholder>>
          /\ stdout = <<"a", NL, "b", "\\", " ", "\\", "'", NL>>
       \/ /\ tokens = <<Placeholder>>
          /\ stdout = <<"\\", "$", "\\", "\\", "x", NL>>
(***************************************************************************)
(* Spec: the worker pool and the ordered collector.  main wraps the reader *)
(* in a mutex and spawns a worker per slot; a worker takes the mutex,      *)
(* reads the job number and the next input, releases it, runs the child    *)
(* and sends a completion record; main collects the records.  The child    *)
(* of a job is `echo`: what it writes is its input and a newline.  The     *)
(* records of the spools drawn here are three and four bytes long, which   *)
(* the index array of the reader holds for every window.                   *)
(***************************************************************************)
JobTexts == {<<"b", "c", "d", "e">>, <<"f", "g", "h">>}

\* one worker more than ncores
Slots_OneMore == 1..(ncores + 1)

Slots == 1..ncores

\* the captured stdout of the child of a job
ChildStdout(input) == input \o <<NL>>

\* the children of the jobs that do not end well: `fail` exits 1 and is
\* silent, `warn` writes to stderr and exits 0, `oops` does both
Fail == <<"f", "a", "i", "l">>
Warn == <<"w", "a", "r", "n">>
Oops == <<"o", "o", "p", "s">>

\* the exit status of the child of a job
ChildExit(input) == IF input \in {Fail, Oops} THEN 1 ELSE 0

\* the captured stderr of the child of a job
ChildStderr(input) == IF input \in {Warn, Oops} THEN input \o <<NL>> ELSE <<>>

\* the command that cannot be spawned
Nope == <<"n", "o", "p", "e">>

\* no command is spawned
SpawnFails_Never(input) == FALSE

\* get_command_output returns an error: the program does not exist
SpawnFails(input) == input = Nope

\* the diagnostic of a job whose command could not be spawned
SpawnCause(input) == <<"!">> \o input \o <<NL>>

\* a worker that leaves instead of taking the lock
Idle_Done == [pc |-> "done", job_id |-> 0, input |-> <<>>]

Idle == [pc |-> "lock", job_id |-> 0, input |-> <<>>]

Init ==
    /\ pc = "main"
    /\ NoAux
    /\ \E records \in SeqsUpTo(JobTexts, MaxJobs) :
          /\ records # <<>>
          /\ unprocessed = SpoolFile(records)
          /\ number_of_arguments = Len(records)
          /\ shared_input = InputIterator_new(SpoolFile(records), Len(records))
    /\ ncores \in 1..MaxCores
    /\ mutex = 0 /\ threads = <<>> /\ input_rx = <<>>
    /\ pending = {} /\ next_to_emit = 1 /\ stdout = <<>> /\ acquired = <<>>
    /\ NoArgs /\ NoCmd /\ NoExit
    /\ comm = <<>> /\ tokens = <<>> /\ exit_code = -1
    /\ yielded = <<>>
    /\ arguments = <<>> /\ stdin = <<>> /\ max_args = 0
    /\ inputs_are_commands = FALSE /\ quote_enabled = FALSE
    /\ mode = "Arguments" /\ index = 0
    /\ current_inputs = <<>> /\ append_list = <<>> /\ lists = <<>>

PoolFrame == UNCHANGED <<spoolVars, yielded, tokVars, ncores, argsVars, cmdVars,
                        exitVars, auxVars>>

\* main: Arc::new(Mutex::new(inputs)), channel(), for slot in 1..args.ncores+1
\* { thread::spawn(...) }
Spawn ==
    /\ pc = "main"
    /\ threads' = [slot \in Slots |-> Idle]
    /\ pc' = "receive_messages"
    /\ UNCHANGED <<shared_input, mutex, input_rx, pending, next_to_emit, stdout,
                   acquired>>
    /\ PoolFrame

\* the mutex can be taken
MutexFree_Always == TRUE

\* the mutex is free and no job is running
MutexFree_NoneRunning ==
    mutex = 0 /\ \A other \in DOMAIN threads : threads[other].pc # "exec"

MutexFree == mutex = 0

\* InputsLock::try_next: self.inputs.lock()
WorkerLock(slot) ==
    /\ threads[slot].pc = "lock"
    /\ MutexFree
    /\ mutex' = slot
    /\ threads' = [threads EXCEPT ![slot].pc = "job_id"]
    /\ UNCHANGED <<pc, shared_input, input_rx, pending, next_to_emit, stdout,
                   acquired>>
    /\ PoolFrame

\* InputsLock::try_next, holding the lock: the job number of the next input
WorkerJobId(slot) ==
    /\ threads[slot].pc = "job_id"
    /\ threads' = [threads EXCEPT ![slot].pc = "next_value",
                                  ![slot].job_id = shared_input.curr_argument + 1]
    /\ UNCHANGED <<pc, shared_input, mutex, input_rx, pending, next_to_emit,
                   stdout, acquired>>
    /\ PoolFrame

\* InputsLock::try_next, holding the lock: inputs.next_value(input), after
\* which the guard drops; the worker leaves its loop when the reader is
\* depleted
WorkerNextValue(slot) ==
    /\ threads[slot].pc = "next_value"
    /\ mutex' = 0
    /\ IF shared_input.curr_argument = shared_input.total_arguments
       THEN /\ threads' = [threads EXCEPT ![slot].pc = "done"]
            /\ UNCHANGED <<pc, shared_input, acquired>>
       ELSE LET r == next_value(shared_input, unprocessed) IN
            IF r = Panic
            THEN /\ pc' = "panic"
                 /\ threads' = [threads EXCEPT ![slot].pc = "done"]
                 /\ UNCHANGED <<shared_input, acquired>>
            ELSE /\ shared_input' = r.it
                 /\ threads' = [threads EXCEPT ![slot].pc = "exec",
                                               ![slot].input = r.item]
                 /\ acquired' = Append(acquired,
                                       [slot |-> slot,
                                        job_number |-> threads[slot].job_id,
                                        input |-> r.item])
                 /\ pc' = pc
    /\ UNCHANGED <<input_rx, pending, next_to_emit, stdout>>
    /\ PoolFrame

\* the worker runs the child to its end and sends the completion record
WorkerSend(slot) ==
    /\ threads[slot].pc = "exec"
    /\ ~SpawnFails(threads[slot].input)
    /\ input_rx' = Append(input_rx, [job_number |-> threads[slot].job_id,
                                     slot |-> slot,
                                     stdout |-> ChildStdout(threads[slot].input),
                                     stderr |-> ChildStderr(threads[slot].input),
                                     exit_status |-> ChildExit(threads[slot].input)])
    /\ threads' = [threads EXCEPT ![slot] = Idle]
    /\ UNCHANGED <<pc, shared_input, mutex, pending, next_to_emit, stdout,
                   acquired>>
    /\ PoolFrame

\* exec returned an error: the worker sends the job as completed with a
\* nonzero exit status and the cause as its stderr, and goes on
WorkerSpawnErr(slot) ==
    /\ threads[slot].pc = "exec"
    /\ SpawnFails(threads[slot].input)
    /\ input_rx' = Append(input_rx, [job_number |-> threads[slot].job_id,
                                     slot |-> slot,
                                     stdout |-> <<>>,
                                     stderr |-> SpawnCause(threads[slot].input),
                                     exit_status |-> 1])
    /\ threads' = [threads EXCEPT ![slot] = Idle]
    /\ UNCHANGED <<pc, shared_input, mutex, pending, next_to_emit, stdout,
                   acquired>>
    /\ PoolFrame

\* collector: the record is the one to emit now
IsNext_Any(record, next) == TRUE

IsNext(record, next) == record.job_number = next

\* a collector that leaves the pending map as it is
Drain_None(waiting, next, out) ==
    [pending |-> waiting, next_to_emit |-> next, stdout |-> out]

\* collector: emit the contiguous records of the pending map
RECURSIVE Drain(_, _, _)
Drain(waiting, next, out) ==
    IF \E r \in waiting : IsNext(r, next)
    THEN LET r == CHOOSE x \in waiting : IsNext(x, next)
         IN Drain(waiting \ {r}, next + 1, out \o r.stdout)
    ELSE [pending |-> waiting, next_to_emit |-> next, stdout |-> out]

\* collector, emission: the captured stderr of the records emitted, in the
\* order of their job numbers, goes to the file `errors`
RECURSIVE EmittedStderr(_, _, _)
EmittedStderr(records, from, to) ==
    IF from >= to \/ ~\E r \in records : r.job_number = from THEN <<>>
    ELSE (CHOOSE r \in records : r.job_number = from).stderr
            \o EmittedStderr(records, from + 1, to)

\* collector: the exit code, the number of failing jobs within 1..=101, or 0
\* when no job failed and `errors` is empty
ExitCode(failing, file) ==
    IF failing = 0 /\ file = <<>> THEN 0
    ELSE IF failing < 1 THEN 1
    ELSE IF failing > 101 THEN 101
    ELSE failing

\* receive_messages: one record received
Receive ==
    /\ pc = "receive_messages"
    /\ input_rx # <<>>
    /\ input_rx' = Tail(input_rx)
    /\ LET record == Head(input_rx) IN
       IF IsNext(record, next_to_emit)
       THEN LET d == Drain(pending, next_to_emit + 1, stdout \o record.stdout)
            IN /\ pending' = d.pending
               /\ next_to_emit' = d.next_to_emit
               /\ stdout' = d.stdout
       ELSE /\ pending' = pending \cup {record}
            /\ UNCHANGED <<next_to_emit, stdout>>
    /\ errors_file' = errors_file \o
          EmittedStderr(pending \cup {Head(input_rx)}, next_to_emit, next_to_emit')
    /\ errors' = IF Head(input_rx).exit_status # 0 THEN errors + 1 ELSE errors
    /\ UNCHANGED <<pc, shared_input, mutex, threads, acquired>>
    /\ UNCHANGED <<spoolVars, yielded, tokVars, ncores, argsVars, cmdVars, auxVars>>

\* receive_messages returns once every job was emitted: what it returns is
\* the exit code
ReceiveEnd ==
    /\ pc = "receive_messages"
    /\ next_to_emit > number_of_arguments
    /\ pc' = "join"
    /\ errors' = ExitCode(errors, errors_file)
    /\ UNCHANGED <<shared_input, mutex, threads, input_rx, pending, next_to_emit,
                   stdout, acquired, errors_file>>
    /\ UNCHANGED <<spoolVars, yielded, tokVars, ncores, argsVars, cmdVars, auxVars>>

\* main: for thread in threads { thread.join().unwrap(); }
Join ==
    /\ pc = "join"
    /\ \A slot \in Slots : threads[slot].pc = "done"
    /\ pc' = "joined"
    /\ UNCHANGED <<shared_input, mutex, threads, input_rx, pending, next_to_emit,
                   stdout, acquired>>
    /\ PoolFrame

\* main: exit(errors) when the file `errors` can be opened and is not
\* empty; otherwise main returns
Teardown ==
    /\ pc = "joined"
    /\ exit_code' = IF errors_file # <<>> THEN errors ELSE 0
    /\ pc' = "exited"
    /\ UNCHANGED <<spoolVars, readerVars, comm, tokens, poolVars, argsVars,
                   cmdVars, exitVars, auxVars>>

Next ==
    \/ Spawn
    \/ \E slot \in DOMAIN threads : WorkerLock(slot)
    \/ \E slot \in DOMAIN threads : WorkerJobId(slot)
    \/ \E slot \in DOMAIN threads : WorkerNextValue(slot)
    \/ \E slot \in DOMAIN threads : WorkerSend(slot)
    \/ Receive
    \/ ReceiveEnd
    \/ Join
    \/ Teardown

Spec == Init /\ [][Next]_vars

\* SpecExit: the pool over jobs that fail, that write to stderr, or both
ExitTexts == {<<"t", "r", "u", "e">>, Fail, Warn, Nope}

ExitInit ==
    /\ pc = "main"
    /\ NoAux
    /\ \E records \in SeqsUpTo(ExitTexts, MaxJobs) :
          /\ records # <<>>
          /\ unprocessed = SpoolFile(records)
          /\ number_of_arguments = Len(records)
          /\ shared_input = InputIterator_new(SpoolFile(records), Len(records))
    /\ ncores \in 1..MaxCores
    /\ mutex = 0 /\ threads = <<>> /\ input_rx = <<>>
    /\ pending = {} /\ next_to_emit = 1 /\ stdout = <<>> /\ acquired = <<>>
    /\ NoArgs /\ NoCmd /\ NoExit
    /\ comm = <<>> /\ tokens = <<>> /\ exit_code = -1
    /\ yielded = <<>>
    /\ arguments = <<>> /\ stdin = <<>> /\ max_args = 0
    /\ inputs_are_commands = FALSE /\ quote_enabled = FALSE
    /\ mode = "Arguments" /\ index = 0
    /\ current_inputs = <<>> /\ append_list = <<>> /\ lists = <<>>

ExitNext ==
    \/ Next
    \/ \E slot \in DOMAIN threads : WorkerSpawnErr(slot)

SpecExit == ExitInit /\ [][ExitNext]_vars

\* the stdout of the first k jobs in job order, from the records of the spool
JobsStdout(k) ==
    Flatten([i \in 1..k |-> ChildStdout(TerminatedRecords(unprocessed)[i])])

C2_AcquisitionOrder ==
    /\ Len(acquired) <= number_of_arguments
    /\ \A k \in 1..Len(acquired) :
          /\ acquired[k].job_number = k
          /\ acquired[k].input = TerminatedRecords(unprocessed)[k]
    /\ (threads # <<>> /\ \A slot \in Slots : threads[slot].pc = "done")
          => Len(acquired) = number_of_arguments

\* all records were handed out and two workers took consecutive ones
C2_Witness ==
    /\ Len(acquired) = number_of_arguments
    /\ \E k \in 1..(Len(acquired) - 1) : acquired[k].slot # acquired[k + 1].slot
    /\ \A slot \in DOMAIN threads : threads[slot].pc = "done"
    /\ threads # <<>>

\* the jobs of the spool whose child exits nonzero
FailingJobs ==
    {k \in 1..number_of_arguments :
        \/ ChildExit(TerminatedRecords(unprocessed)[k]) # 0
        \/ SpawnFails(TerminatedRecords(unprocessed)[k])}

\* the jobs of the spool whose child writes to stderr
StderrJobs ==
    {k \in 1..number_of_arguments :
        \/ ChildStderr(TerminatedRecords(unprocessed)[k]) # <<>>
        \/ SpawnFails(TerminatedRecords(unprocessed)[k])}

\* C14: after collection the process exits with 0 when no job exited
\* nonzero and `errors` is empty, and otherwise with the number of failing
\* jobs brought into 1..=101.
C14_ExitCode ==
    pc = "exited" =>
        exit_code = IF FailingJobs = {} /\ errors_file = <<>> THEN 0
                    ELSE IF Cardinality(FailingJobs) < 1 THEN 1
                    ELSE IF Cardinality(FailingJobs) > 101 THEN 101
                    ELSE Cardinality(FailingJobs)

\* what job k writes to stdout and to stderr: nothing and the cause when its
\* command cannot be spawned
JobInput(k) == TerminatedRecords(unprocessed)[k]

JobStdout(k) == IF JobInput(k) = Nope THEN <<>> ELSE ChildStdout(JobInput(k))

JobStderr(k) ==
    IF JobInput(k) = Nope THEN SpawnCause(Nope) ELSE ChildStderr(JobInput(k))

\* the records sent and not yet emitted
InFlight == {input_rx[i] : i \in 1..Len(input_rx)} \cup pending

QuoteShort == <<"-", "q">>
QuoteLong  == <<"-", "-", "q", "u", "o", "t", "e">>

\* check_command: TRUE when a quote is left open
RECURSIVE NonTerminated(_, _, _, _)
NonTerminated(bytes, single, double, back) ==
    IF bytes = <<>> THEN double \/ single
    ELSE LET byte == Head(bytes) IN
         IF back THEN NonTerminated(Tail(bytes), single, double, ~back)
         ELSE IF byte = "\\" THEN NonTerminated(Tail(bytes), single, double, ~back)
         ELSE IF byte = "\"" THEN NonTerminated(Tail(bytes), single, ~double, back)
         ELSE IF byte = "'" THEN NonTerminated(Tail(bytes), ~single, double, back)
         ELSE NonTerminated(Tail(bytes), single, double, back)

check_command(input) ==
    IF NonTerminated(input, FALSE, FALSE, FALSE) THEN "NonTerminated" ELSE "Ok"

\* quote_inputs: each of " \ ' and space gets a backslash before it
quote_inputs(input) == QuoteRest(input)

\* Args::parse, Mode::Arguments: the options up to the command or the first
\* list marker
RECURSIVE ParseArguments(_, _, _)
ParseArguments(args, i, quote) ==
    IF i > Len(args)
      THEN [index |-> i, quote_enabled |-> quote, mode |-> "Arguments",
            comm |-> <<>>]
    ELSE LET arg == args[i] IN
         IF Head(arg) = "-"
           THEN ParseArguments(args, i + 1, quote \/ arg \in {QuoteShort, QuoteLong})
         ELSE IF arg = MarkInputs
           THEN [index |-> i + 1, quote_enabled |-> quote, mode |-> "Inputs",
                 comm |-> <<>>]
         ELSE IF arg = MarkFiles
           THEN [index |-> i + 1, quote_enabled |-> quote, mode |-> "Files",
                 comm |-> <<>>]
         ELSE [index |-> i + 1, quote_enabled |-> quote, mode |-> "Command",
               comm |-> IF quote THEN quote_command(arg) ELSE arg]

\* Args::parse, Mode::Command: the arguments of the command up to the first
\* list marker
RECURSIVE CommandArguments(_, _, _, _)
CommandArguments(args, i, command_text, quote) ==
    IF i > Len(args)
      THEN [index |-> i, mode |-> "Command", comm |-> command_text]
    ELSE LET arg == args[i] IN
         IF arg \in {MarkInputs, MarkInputsAppend}
           THEN [index |-> i + 1, mode |-> "Inputs", comm |-> command_text]
         ELSE IF arg \in {MarkFiles, MarkFilesAppend}
           THEN [index |-> i + 1, mode |-> "Files", comm |-> command_text]
         ELSE CommandArguments(args, i + 1,
                  command_text \o <<SP>> \o
                      (IF quote THEN quote_inputs(arg) ELSE arg), quote)

\* the file standard input is redirected from
RedirectedPath == <<"r">>

\* the words of a command: a plain word, a word with an open quote, an
\* escaped quote, and a word with a space and a quote after it
CommandWords ==
    {<<"e">>, <<"e", "\"">>, <<"\\", "\"">>, <<"e", " ", "'">>}

MaxCommandWords == 2

\* the lists of the command line
ListArguments ==
    {<<>>,
     <<MarkInputs, ValA>>,
     <<MarkInputs, ValB, ValA>>,
     <<MarkFiles, ValA>>,
     <<MarkInputs, ValA, MarkInputs>>,
     <<MarkInputs, ValA, MarkInputsAppend, ValB>>,
     <<MarkInputs, ValA, MarkFilesAppend, ValA>>}

CommandLines ==
    {options \o words \o ls :
        options \in {<<>>, <<QuoteShort>>, <<QuoteLong>>},
        words \in SeqsUpTo(CommandWords, MaxCommandWords),
        ls \in ListArguments}

\* what standard input holds when Args::parse reads it
ArgsStdin == {<<>>, <<ValA>>, <<ValB, <<>>, ValA>>}

ArgsInit ==
    /\ pc = "parse"
    /\ argv \in CommandLines
    /\ redirected \in BOOLEAN
    /\ comm = <<>> /\ tokens = <<>> /\ exit_code = -1
    /\ arguments = <<>> /\ stdin = <<>> /\ max_args = 0
    /\ inputs_are_commands = FALSE /\ quote_enabled = FALSE
    /\ mode = "Arguments" /\ index = 1
    /\ current_inputs = <<>> /\ append_list = <<>> /\ lists = <<>>
    /\ unprocessed = <<>> /\ number_of_arguments = 0
    /\ shared_input = NoIterator
    /\ yielded = <<>>
    /\ NoPool /\ NoCmd /\ NoExit /\ NoAux

ArgsFrame == UNCHANGED <<stdin, max_args, append_list, lists, unprocessed,
                         number_of_arguments, readerVars, tokens, exit_code,
                         poolVars, argsVars, cmdVars, exitVars, auxVars>>

\* Args::parse up to the validation of the command: the mode and the index
\* of the first argument, the options, the first word of the command, and
\* check_command unless --quote is on
ParseCommand ==
    /\ pc = "parse"
    /\ IF argv = <<>>
         THEN /\ pc' = IF redirected THEN "redirected" ELSE "stdin"
              /\ UNCHANGED <<mode, index, quote_enabled, comm, inputs_are_commands>>
         ELSE LET r == IF argv[1] \in {MarkInputs, MarkInputsAppend}
                         THEN [index |-> 2, quote_enabled |-> FALSE,
                               mode |-> "Inputs", comm |-> <<>>]
                       ELSE IF argv[1] \in {MarkFiles, MarkFilesAppend}
                         THEN [index |-> 2, quote_enabled |-> FALSE,
                               mode |-> "Files", comm |-> <<>>]
                       ELSE ParseArguments(argv, 1, FALSE)
              IN /\ mode' = r.mode
                 /\ index' = r.index
                 /\ quote_enabled' = r.quote_enabled
                 /\ comm' = r.comm
                 /\ inputs_are_commands' = (r.comm = <<>>)
                 /\ pc' = IF /\ r.comm # <<>> /\ ~r.quote_enabled
                             /\ check_command(r.comm) = "NonTerminated"
                            THEN "NonTerminated"
                          ELSE IF redirected THEN "redirected"
                          ELSE "command"
    /\ UNCHANGED <<arguments, current_inputs>>
    /\ ArgsFrame

\* Args::parse, standard input redirected from a file: the inputs are the
\* lines of that file, and the rest of the command line is not read
ParseRedirected ==
    /\ pc = "redirected"
    /\ current_inputs' =
          file_parse(current_inputs, RedirectedPath,
                     IF argv = <<>> THEN TRUE ELSE inputs_are_commands)
    /\ pc' = "write_inputs_to_disk"
    /\ UNCHANGED <<arguments, mode, index, quote_enabled, comm,
                   inputs_are_commands>>
    /\ ArgsFrame

\* Args::parse, standard input not redirected: the arguments of the command
\* up to the first list marker, check_command again, and parse_inputs from
\* there
ParseCommandArgs ==
    /\ pc = "command"
    /\ LET r == IF mode = "Command"
                  THEN CommandArguments(argv, index, comm, quote_enabled)
                  ELSE [index |-> index, mode |-> mode, comm |-> comm]
       IN /\ comm' = r.comm
          /\ mode' = r.mode
          /\ arguments' = IF r.mode \in {"Inputs", "Files"}
                            THEN SubSeq(argv, r.index - 1, Len(argv))
                            ELSE <<>>
          /\ index' = 2
          /\ pc' = IF /\ mode = "Command" /\ ~quote_enabled
                      /\ check_command(r.comm) = "NonTerminated"
                     THEN "NonTerminated"
                     ELSE "parse_inputs"
    /\ UNCHANGED <<current_inputs, quote_enabled, inputs_are_commands>>
    /\ ArgsFrame

\* Args::parse, nothing was written from the lists: the inputs are the
\* commands when there is no command, check_command, write_stdin_to_disk,
\* and NoArguments when it wrote nothing
ArgsWriteStdinToDisk ==
    /\ pc = "stdin"
    /\ \E input \in IF redirected THEN {FileLines(RedirectedPath)} ELSE ArgsStdin :
         LET iac == inputs_are_commands \/ comm = <<>>
             out == write_stdin_to_disk(max_args, iac, quote_enabled, input)
         IN IF comm # <<>> /\ ~quote_enabled /\ check_command(comm) = "NonTerminated"
              THEN /\ pc' = "NonTerminated"
                   /\ UNCHANGED <<stdin, inputs_are_commands, unprocessed,
                                  number_of_arguments>>
              ELSE /\ stdin' = input
                   /\ inputs_are_commands' = iac
                   /\ unprocessed' = out.file
                   /\ number_of_arguments' = out.n
                   /\ pc' = IF out.n = 0 THEN "NoArguments" ELSE "spooled"
    /\ UNCHANGED <<arguments, max_args, quote_enabled, mode, index,
                   current_inputs, append_list, lists, readerVars, tokVars,
                   poolVars, argsVars, cmdVars, exitVars, auxVars>>

ArgsNext ==
    \/ ParseCommand
    \/ ParseRedirected
    \/ ParseCommandArgs
    \/ ParseSwitchMode
    \/ ParseSwitchModeAppend
    \/ ParseValue
    \/ ParseEnd
    \/ WriteInputsToDisk
    \/ ArgsWriteStdinToDisk

SpecArgs == ArgsInit /\ [][ArgsNext]_vars

\* the command line read without the parser: the leading options, the first
\* list marker after them, and the words of the command between the two
RECURSIVE LeadingOptions(_)
LeadingOptions(args) ==
    IF args # <<>> /\ Head(Head(args)) = "-" THEN 1 + LeadingOptions(Tail(args))
                                             ELSE 0

FirstMarker(args) ==
    IF \E i \in 1..Len(args) : args[i] \in Markers
      THEN CHOOSE i \in 1..Len(args) :
               args[i] \in Markers /\ \A j \in 1..(i - 1) : args[j] \notin Markers
      ELSE Len(args) + 1

TemplateWords == SubSeq(argv, LeadingOptions(argv) + 1, FirstMarker(argv) - 1)

QuoteGiven ==
    \E i \in 1..LeadingOptions(argv) : argv[i] \in {QuoteShort, QuoteLong}

\* the command string: the words joined by single spaces, escaped under
\* --quote (all but the first word of the first argument)
CommandString ==
    IF ~QuoteGiven THEN JoinSpace(TemplateWords)
    ELSE JoinSpace([i \in 1..Len(TemplateWords) |->
                       IF i = 1 THEN quote_command(TemplateWords[i])
                                ELSE quote_inputs(TemplateWords[i])])

\* byte i of text comes right after a backslash that is not itself escaped
RECURSIVE EscapedAt(_, _)
EscapedAt(text, i) ==
    i > 1 /\ text[i - 1] = "\\" /\ ~EscapedAt(text, i - 1)

CountedQuotes(text, q) ==
    {i \in 1..Len(text) : text[i] = q /\ ~EscapedAt(text, i)}

Unbalanced(text) ==
    \/ Cardinality(CountedQuotes(text, "\"")) % 2 = 1
    \/ Cardinality(CountedQuotes(text, "'")) % 2 = 1

\* Args::parse has returned
ArgsParsed == pc \in {"spooled", "NoArguments", "NonTerminated"}

\* C16: the command string is validated before tokenization: Args::parse
\* fails with NonTerminated exactly when the command has an unbalanced " or
\* an unbalanced ', a byte right after an unescaped backslash not counting
\* as a quote; a command whose quotes are balanced is accepted.
C16_UnterminatedQuote ==
    (ArgsParsed /\ TemplateWords # <<>>) =>
        (pc = "NonTerminated" <=> Unbalanced(CommandString))

\* a `:::` or a `::::` list is on the command line
HasLists == \E i \in 1..Len(argv) : argv[i] \in {MarkInputs, MarkFiles}

\* C17: standard input is the source of the inputs only when the command
\* line has no `:::` and no `::::` list; when it has one, the spool is built
\* from the lists, and the command is every argument before the first list
\* marker, whether or not standard input is redirected.
C17_ListsBeforeStdin ==
    (pc = "spooled" /\ HasLists) =>
        /\ stdin = <<>>
        /\ arguments = SubSeq(argv, FirstMarker(argv), Len(argv))
        /\ index > Len(arguments)
        /\ lists # <<>>
        /\ comm = CommandString

\* SHELL_QUOTE: a backslash before every character of the set
ShellQuoted(text) ==
    Flatten([i \in 1..Len(text) |->
                IF text[i] \in QuotedCharacters THEN <<"\\", text[i]>>
                                                ELSE <<text[i]>>])

\* the command line has no append marker
NoAppends ==
    \A i \in 1..Len(argv) : argv[i] \notin {MarkInputsAppend, MarkFilesAppend}

\* C18: with --quote and the inputs being the commands, every input written
\* to the spool is its raw text escaped by SHELL_QUOTE, whether it comes
\* from a `:::` argument, from a file or from standard input.
C18_QuotedInputs ==
    (/\ pc = "spooled" /\ quote_enabled /\ inputs_are_commands
     /\ NoAppends /\ Len(lists) <= 1 /\ max_args < 2)
    => \A i \in 1..Len(WrittenInputs(unprocessed)) :
          WrittenInputs(unprocessed)[i] \in {ShellQuoted(v) : v \in Values}

\* ---------------------------------------------------------------------
\* --mem-free: arguments/mod.rs, parse_memory
\* ---------------------------------------------------------------------

\* A u64 is four limbs of 16 bits, the low limb first.
Limb == 2^16

U64Limbs == 4

\* n limbs of zero
ZeroLimbs(n) == [i \in 1..n |-> 0]

\* limbs * m + add on Len(limbs) limbs: the low limbs of the result and the
\* carry out of the top limb (0 when the result fits)
RECURSIVE MulAdd(_, _, _)
MulAdd(limbs, m, add) ==
    IF limbs = <<>> THEN [limbs |-> <<>>, carry |-> add]
    ELSE LET v    == Head(limbs) * m + add
             rest == MulAdd(Tail(limbs), m, v \div Limb)
         IN  [limbs |-> <<v % Limb>> \o rest.limbs, carry |-> rest.carry]

DigitChars == <<"0", "1", "2", "3", "4", "5", "6", "7", "8", "9">>

IsDigit(c) == \E d \in 1..Len(DigitChars) : DigitChars[d] = c

to_digit(c) == (CHOOSE d \in 1..Len(DigitChars) : DigitChars[d] = c) - 1

ParseIntError == [res |-> "ParseIntError"]

\* the digits of str::parse::<u64>: checked_mul(10), checked_add(digit)
RECURSIVE ParseDigits(_, _)
ParseDigits(text, acc) ==
    IF text = <<>> THEN [res |-> "Ok", value |-> acc]
    ELSE IF ~IsDigit(Head(text)) THEN ParseIntError
    ELSE LET r == MulAdd(acc, 10, to_digit(Head(text)))
         IN  IF r.carry # 0 THEN ParseIntError
             ELSE ParseDigits(Tail(text), r.limbs)

\* input.parse::<u64>(): empty is an error, one leading `+` is accepted
parse_u64(text) ==
    IF text = <<>> THEN ParseIntError
    ELSE LET digits == IF Head(text) = "+" THEN Tail(text) ELSE text
         IN  IF digits = <<>> THEN ParseIntError
             ELSE ParseDigits(digits, ZeroLimbs(U64Limbs))

\* the suffixes of parse_memory; the multiplier of a suffix is Factor^Power:
\* 1_000 = 1000^1, 1_048_576 = 1024^2, ... 1_125_899_906_842_624 = 1024^5
Suffixes == <<"k", "m", "g", "t", "p">>

BinarySuffixes == <<"K", "M", "G", "T", "P">>

IsSuffix(c) ==
    \E n \in 1..Len(Suffixes) : c = Suffixes[n] \/ c = BinarySuffixes[n]

Factor(c) == IF \E n \in 1..Len(Suffixes) : c = Suffixes[n] THEN 1000 ELSE 1024

Power(c) ==
    CHOOSE n \in 1..Len(Suffixes) : c = Suffixes[n] \/ c = BinarySuffixes[n]

\* value * factor^n by `*` on u64: the product modulo 2^64, and whether the
\* multiplication overflowed
RECURSIVE Times(_, _, _)
Times(value, factor, n) ==
    IF n = 0 THEN [limbs |-> value, overflow |-> FALSE]
    ELSE LET r    == MulAdd(value, factor, 0)
             rest == Times(r.limbs, factor, n - 1)
         IN  [limbs |-> rest.limbs, overflow |-> r.carry # 0 \/ rest.overflow]

\* what `*` does when the product does not fit: it panics in a build with
\* overflow checks and wraps in a build without them
Overflowed(product) == {Panic, [res |-> "Ok", value |-> product]}

\* fn parse_memory(input: &str) -> Result<u64, ParseIntError>: the set of
\* its outcomes
parse_memory(input) ==
    IF input = <<>> THEN {Panic}
    ELSE LET last == input[Len(input)] IN
         IF IsSuffix(last)
         THEN LET n == parse_u64(SubSeq(input, 1, Len(input) - 1)) IN
              IF n.res # "Ok" THEN {ParseIntError}
              ELSE LET p == Times(n.value, Factor(last), Power(last)) IN
                   IF p.overflow THEN Overflowed(p.limbs)
                   ELSE {[res |-> "Ok", value |-> p.limbs]}
         ELSE {parse_u64(input)}

\* the decimal numbers put before a suffix: 0, small ones, the largest u64,
\* 2^64, 2^54 and 2^14 (whose products with K and P are 2^64) and the
\* numbers just below them, an empty one and three that are no numbers
MemNumbers ==
    { <<>>, <<"0">>, <<"1">>, <<"1", "7">>, <<"+", "5">>, <<"x">>,
      <<"1", "k">>, <<"-", "1">>,
      <<"1", "6", "3", "8", "3">>, <<"1", "6", "3", "8", "4">>,
      <<"1","8","0","1","4","3","9","8","5","0","9","4","8","1","9","8","3">>,
      <<"1","8","0","1","4","3","9","8","5","0","9","4","8","1","9","8","4">>,
      <<"1","8","4","4","6","7","4","4","0","7","3","7","0","9","5","5","1",
        "6","1","5">>,
      <<"1","8","4","4","6","7","4","4","0","7","3","7","0","9","5","5","1",
        "6","1","6">> }

MemSuffixes ==
    {<<>>} \cup {<<Suffixes[n]>> : n \in 1..Len(Suffixes)}
           \cup {<<BinarySuffixes[n]>> : n \in 1..Len(Suffixes)}

\* what follows --mem-free on the command line: nothing, or one value
MemValues == {<<>>} \cup {<<n \o s>> : n \in MemNumbers, s \in MemSuffixes}

MemInit ==
    /\ pc = "mem-free"
    /\ mem_free \in MemValues
    /\ memory = ZeroLimbs(U64Limbs)
    /\ now = 0 /\ eta = NoEta /\ stderr = <<>> /\ child = NoChild
    /\ digits_call = NoNumber
    /\ arguments = <<>> /\ stdin = <<>> /\ max_args = 0
    /\ inputs_are_commands = FALSE /\ quote_enabled = FALSE
    /\ mode = "Arguments" /\ index = 1
    /\ current_inputs = <<>> /\ append_list = <<>> /\ lists = <<>>
    /\ unprocessed = <<>> /\ number_of_arguments = 0
    /\ shared_input = NoIterator /\ yielded = <<>>
    /\ comm = <<>> /\ tokens = <<>> /\ exit_code = -1
    /\ NoPool /\ NoArgs /\ NoCmd /\ NoExit

\* "mem-free" => { let val = arguments.get(index).ok_or(MemNoValue)?;
\*                 self.memory = parse_memory(val).map_err(MemInvalid)?; }
ParseMemFree ==
    /\ pc = "mem-free"
    /\ IF mem_free = <<>>
       THEN pc' = "MemNoValue" /\ UNCHANGED memory
       ELSE \E r \in parse_memory(mem_free[1]) :
               IF r = Panic THEN pc' = "panic" /\ UNCHANGED memory
               ELSE IF r = ParseIntError
                    THEN pc' = "MemInvalid" /\ UNCHANGED memory
                    ELSE pc' = "mem-free parsed" /\ memory' = r.value
    /\ UNCHANGED <<spoolVars, readerVars, tokVars, poolVars, argsVars,
                   cmdVars, exitVars, mem_free, now, eta, stderr, child, digits_call>>

MemNext == ParseMemFree

SpecMem == MemInit /\ [][MemNext]_vars

\* ---- the value of --mem-free as the option describes it

\* the text is a decimal integer
IsDecimal(text) ==
    /\ text # <<>>
    /\ \A i \in 1..Len(text) : IsDigit(text[i])

\* the decimal integer before the suffix, if there is one
MemDigits(text) ==
    LET body == IF text # <<>> /\ IsSuffix(text[Len(text)])
                THEN SubSeq(text, 1, Len(text) - 1) ELSE text
    IN  IF body # <<>> /\ Head(body) = "+" THEN Tail(body) ELSE body

\* the exact value of a decimal integer on eight limbs (128 bits)
RECURSIVE DecimalValue(_, _)
DecimalValue(text, acc) ==
    IF text = <<>> THEN acc
    ELSE DecimalValue(Tail(text), MulAdd(acc, 10, to_digit(Head(text))).limbs)

\* decimal integer * multiplier, exactly, on eight limbs
ExactProduct(text) ==
    LET n == DecimalValue(MemDigits(text), ZeroLimbs(2 * U64Limbs))
    IN  IF IsSuffix(text[Len(text)])
        THEN Times(n, Factor(text[Len(text)]), Power(text[Len(text)])).limbs
        ELSE n

\* the value is a number with an optional suffix whose product fits in 64 bits
ValidMemFree(text) ==
    /\ IsDecimal(MemDigits(text))
    /\ SubSeq(ExactProduct(text), U64Limbs + 1, 2 * U64Limbs)
         = ZeroLimbs(U64Limbs)

\* C23: an accepted --mem-free value is a decimal integer with an optional
\* suffix whose product with the suffix's multiplier fits in 64 bits, and
\* the threshold is exactly that product; no other value is accepted.
C23_MemFree ==
    (pc = "mem-free parsed") =>
        /\ ValidMemFree(mem_free[1])
        /\ memory = SubSeq(ExactProduct(mem_free[1]), 1, U64Limbs)

\* ---------------------------------------------------------------------
\* The ETA: input_iterator/iterator.rs, InputIterator::eta and
\* ETA::write_to_stderr, over the reader of SpecReader and a clock.
\* ---------------------------------------------------------------------

\* InputIterator::eta
eta_of(it) ==
    LET left == it.total_arguments - it.completed
    IN  [left |-> left, time |-> left * it.average_time,
         average |-> it.average_time]

NsPerSecond == 10^9

NsPerHundredth == 10^7

\* ETA::write_to_stderr: the line written for `completed`
write_to_stderr(e, completed) ==
    LET remainder == (e.average % NsPerSecond) \div NsPerHundredth
    IN  <<"E", "T", "A", ":", SP>> \o to_string(e.time \div NsPerSecond)
        \o <<"s", SP, "L", "e", "f", "t", ":", SP>> \o to_string(e.left)
        \o <<SP, "A", "V", "G", ":", SP>>
        \o to_string(e.average \div NsPerSecond) \o <<".">>
        \o to_string(remainder)
        \o (IF remainder < 10 THEN <<"0">> ELSE <<>>)
        \o <<"s", SP, "C", "o", "m", "p", "l", "e", "t", "e", "d", ":", SP>>
        \o to_string(completed) \o <<NL>>

\* the values time::precise_time_ns() returns, in nanoseconds
Clock ==
    {0, 3, NsPerHundredth, 5 * NsPerHundredth, 12 * NsPerHundredth,
     69 * NsPerHundredth + 7}

EtaRecords == {<<"a">>, <<"b", "c">>}

EtaInit ==
    /\ pc = "main"
    /\ \E records \in SeqsUpTo(EtaRecords, MaxJobs + 1) :
          /\ records # <<>>
          /\ unprocessed = SpoolFile(records)
          /\ number_of_arguments = Len(records)
    /\ shared_input = NoIterator
    /\ yielded = <<>>
    /\ arguments = <<>> /\ stdin = <<>> /\ max_args = 0
    /\ inputs_are_commands = FALSE /\ quote_enabled = FALSE
    /\ mode = "Arguments" /\ index = 0
    /\ current_inputs = <<>> /\ append_list = <<>> /\ lists = <<>>
    /\ comm = <<>> /\ tokens = <<>> /\ exit_code = -1
    /\ NoPool /\ NoArgs /\ NoCmd /\ NoExit /\ NoAux

\* time passes: the monotonic clock moves to a later value
Tick ==
    /\ pc \in {"main", "iterate"}
    /\ \E t \in Clock : t > now /\ now' = t
    /\ UNCHANGED <<pc, spoolVars, readerVars, tokVars, poolVars, argsVars,
                   cmdVars, exitVars, mem_free, memory, eta, stderr, child, digits_call>>

\* a completion counted whether or not its input was handed out
Completed_Unhanded ==
    /\ pc \in {"iterate", "depleted"}
    /\ shared_input.completed <= shared_input.curr_argument
    /\ shared_input.completed < shared_input.total_arguments
    /\ shared_input' = [shared_input EXCEPT !.completed = @ + 1]
    /\ UNCHANGED <<pc, spoolVars, yielded, tokVars, poolVars, argsVars,
                   cmdVars, exitVars, auxVars>>

\* a job that was handed out completes: the collector counts it and, with
\* --eta, writes the ETA line to stderr, all under the reader's lock
Completed ==
    /\ pc \in {"iterate", "depleted"}
    /\ shared_input.completed < shared_input.curr_argument
    /\ LET it == [shared_input EXCEPT !.completed = shared_input.completed + 1]
       IN  /\ shared_input' = it
           /\ eta' = eta_of(it)
           /\ stderr' = Append(stderr, write_to_stderr(eta_of(it), it.completed))
    /\ UNCHANGED <<pc, spoolVars, yielded, tokVars, poolVars, argsVars,
                   cmdVars, exitVars, mem_free, memory, now, child, digits_call>>

EtaNext == ReaderNew \/ ReaderNext \/ ReaderDepleted \/ Tick \/ Completed

SpecEta == EtaInit /\ [][EtaNext]_vars

HandedOut == shared_input'.curr_argument = shared_input.curr_argument + 1

\* the time elapsed since the reader was made
Elapsed == now - shared_input.start_time

\* C24: the ETA is remaining * average_time with remaining = total -
\* completed; the average is 0 while nothing has completed, and each time an
\* input is handed out it becomes the time elapsed since the start when one
\* job has completed, the elapsed time divided by the number of completed
\* jobs (integer division) when two or more have, and it changes at no
\* other time.
C24_Eta ==
    /\ [](pc \in {"iterate", "depleted"} =>
            /\ shared_input.completed = 0 => shared_input.average_time = 0
            /\ eta.time = eta.left * eta.average)
    /\ [][stderr' # stderr =>
            /\ eta'.left = shared_input'.total_arguments
                             - shared_input'.completed
            /\ eta'.average = shared_input'.average_time]_vars
    /\ [][pc = "iterate" /\ pc' # "panic" =>
            IF HandedOut
            THEN /\ shared_input.completed = 1 =>
                      shared_input'.average_time = Elapsed
                 /\ shared_input.completed >= 2 =>
                      /\ shared_input'.average_time * shared_input.completed
                            <= Elapsed
                      /\ Elapsed < (shared_input'.average_time + 1)
                                      * shared_input.completed
            ELSE shared_input'.average_time = shared_input.average_time]_vars

\* two jobs have completed before the third input is handed out, the
\* elapsed time is no multiple of 2, and an ETA was written with a
\* positive average and an input left
C24_Witness ==
    /\ pc = "iterate"
    /\ shared_input.completed = 2 /\ shared_input.curr_argument = 3
    /\ Elapsed % 2 = 1
    /\ shared_input.average_time = Elapsed \div 2
    /\ stderr # <<>>

\* the AVG field of an ETA line: whole seconds, a dot, two digits
AvgField(average) ==
    LET hundredths == (average % NsPerSecond) \div NsPerHundredth
    IN  to_string(average \div NsPerSecond) \o <<".">>
        \o (IF hundredths < 10 THEN <<"0">> ELSE <<>>) \o to_string(hundredths)

\* the text of a line between `AVG: ` and `s Completed`
AvgOf(line) ==
    LET from == CHOOSE i \in 1..Len(line) :
                    SubSeq(line, i, i + 4) = <<"A", "V", "G", ":", SP>>
        to   == CHOOSE i \in 1..Len(line) :
                    SubSeq(line, i, i + 2) = <<"s", SP, "C">>
    IN  SubSeq(line, from + 5, to - 1)

\* ---- ETA::write_to_stderr as a function of the ETA

\* the averages: 0 and 1 whole seconds, every number of hundredths, and
\* nothing or just less than a hundredth on top
Averages ==
    {s * NsPerSecond + h * NsPerHundredth + e :
        s \in 0..1, h \in 0..99, e \in {0, NsPerHundredth - 1}}

\* the counters of a reader with `completed` jobs done, `left` to do and
\* the average `average`
Counters(completed, left, average) ==
    [total_arguments |-> completed + left, curr_argument |-> completed,
     completed |-> completed, start_time |-> 0, average_time |-> average]

EtaLineInit ==
    /\ pc = "eta"
    /\ \E completed \in 1..MaxJobs, left \in 0..1, average \in Averages :
          shared_input = Counters(completed, left, average)
    /\ yielded = <<>>
    /\ arguments = <<>> /\ stdin = <<>> /\ max_args = 0
    /\ inputs_are_commands = FALSE /\ quote_enabled = FALSE
    /\ mode = "Arguments" /\ index = 0
    /\ current_inputs = <<>> /\ append_list = <<>> /\ lists = <<>>
    /\ unprocessed = <<>> /\ number_of_arguments = 0
    /\ comm = <<>> /\ tokens = <<>> /\ exit_code = -1
    /\ NoPool /\ NoArgs /\ NoCmd /\ NoExit /\ NoAux

\* input.eta().write_to_stderr(input.completed)
WriteEta ==
    /\ pc = "eta"
    /\ eta' = eta_of(shared_input)
    /\ stderr' = <<write_to_stderr(eta_of(shared_input),
                                   shared_input.completed)>>
    /\ pc' = "eta written"
    /\ UNCHANGED <<spoolVars, readerVars, tokVars, poolVars, argsVars,
                   cmdVars, exitVars, mem_free, memory, now, child, digits_call>>

EtaLineNext == WriteEta

SpecEtaLine == EtaLineInit /\ [][EtaLineNext]_vars

\* C25: in every ETA line the AVG field is the whole seconds of the average,
\* a dot, and the two digits of its hundredths of a second, padded with a
\* zero on the left.
C25_AvgField ==
    stderr # <<>> => AvgOf(stderr[Len(stderr)]) = AvgField(eta.average)

\* ---------------------------------------------------------------------
\* The pool and the collector of Spec: what is emitted, what runs, and
\* whether the program ends.
\* ---------------------------------------------------------------------

\* the jobs whose record a worker has sent
SentJobs ==
    {acquired[k].job_number : k \in 1..Len(acquired)}
        \ {threads[slot].job_id :
              slot \in {w \in DOMAIN threads : threads[w].pc = "exec"}}

\* the jobs whose record is still in the channel
ChannelJobs == {input_rx[k].job_number : k \in 1..Len(input_rx)}

PendingJobs == {r.job_number : r \in pending}

\* the jobs the collector has emitted: received and not pending
EmittedJobs == (SentJobs \ ChannelJobs) \ PendingJobs

\* the first job number from `next` on that has no record in `waiting`
RECURSIVE FirstMissing(_, _)
FirstMissing(waiting, next) ==
    IF \E r \in waiting : r.job_number = next
    THEN FirstMissing(waiting, next + 1) ELSE next

\* C26: next_to_emit starts at 1; after each received record every pending
\* record has a job number above next_to_emit, the emitted jobs are exactly
\* 1..next_to_emit-1, each once, and a record whose job number is
\* next_to_emit is emitted at once with all its contiguous successors that
\* were pending, any other record going to the pending map.
C26_Collector ==
    /\ [](/\ pc = "main" => next_to_emit = 1
          /\ \A r \in pending : r.job_number > next_to_emit
          /\ \A r \in pending : \A q \in pending :
                r.job_number = q.job_number => r = q
          /\ EmittedJobs = 1..(next_to_emit - 1)
          /\ stdout = JobsStdout(Cardinality(EmittedJobs)))
    /\ [][input_rx' # input_rx /\ Len(input_rx') < Len(input_rx) =>
            IF Head(input_rx).job_number = next_to_emit
            THEN /\ next_to_emit' =
                       FirstMissing(pending, next_to_emit + 1)
                 /\ pending' =
                       {r \in pending : r.job_number >= next_to_emit'}
            ELSE /\ next_to_emit' = next_to_emit
                 /\ pending' = pending \cup {Head(input_rx)}]_vars

\* the record of job 2 waits in the pending map and the record of job 1,
\* the one to emit, is the next the collector receives
C26_Witness ==
    /\ next_to_emit = 1
    /\ input_rx # <<>> /\ Head(input_rx).job_number = 1
    /\ \E r \in pending : r.job_number = 2

\* SpecLive: the pool under fair scheduling: the program takes a step as
\* long as one of its threads can take one (a running child exits, a
\* thread at the mutex gets it once it stays free, the collector receives).
\* Its jobs all have the same text: what a job prints has no part in
\* whether the program ends.
LiveInit ==
    /\ Init
    /\ \A k \in 1..number_of_arguments :
          TerminatedRecords(unprocessed)[k] = <<"f", "g", "h">>

SpecLive == LiveInit /\ [][Next]_vars /\ WF_vars(Next)

Running(slot, k) == threads[slot].pc = "exec" /\ threads[slot].job_id = k

\* C28: a worker at the lock waits for nothing but the mutex, whatever the
\* jobs the other workers run; a job that runs is not emitted, nor is any
\* job above it, the records of those that were sent staying in the channel
\* or in the pending map.
C28_UnorderedExecution ==
    /\ \A slot \in DOMAIN threads :
          (threads[slot].pc = "lock" /\ mutex = 0 /\ pc # "panic")
             => ENABLED WorkerLock(slot)
    /\ \A slot \in DOMAIN threads : \A k \in 1..number_of_arguments :
          Running(slot, k) =>
             /\ next_to_emit <= k
             /\ \A j \in SentJobs :
                   j > k => j \in ChannelJobs \cup PendingJobs

\* job 1 is still running and job 2, started after it, has completed: its
\* record was sent and waits in the pending map
C28_Witness ==
    /\ \E slot \in DOMAIN threads : Running(slot, 1)
    /\ 2 \in SentJobs /\ 2 \in PendingJobs
    /\ next_to_emit = 1

\* the jobs acquired from the reader whose record has not been sent
InFlightJobs == {acquired[k].job_number : k \in 1..Len(acquired)} \ SentJobs

\* C29: exactly ncores workers are spawned, with the slot numbers 1..ncores,
\* which never change; each runs one job at a time, so the jobs acquired
\* and not yet sent are at most ncores, each with a worker of its own.
C29_WorkersBounded ==
    /\ [](/\ threads # <<>> => DOMAIN threads = 1..ncores
          /\ Cardinality(InFlightJobs) <= ncores
          /\ Cardinality(InFlightJobs)
               = Cardinality({w \in DOMAIN threads : threads[w].pc = "exec"})
          /\ \A k \in 1..Len(acquired) : acquired[k].slot \in 1..ncores
          /\ \A k \in 1..Len(input_rx) : input_rx[k].slot \in 1..ncores)
    /\ [][/\ ncores' = ncores
          /\ threads # <<>> => DOMAIN threads' = DOMAIN threads
          /\ \A k \in 1..Len(acquired) : acquired'[k] = acquired[k]
          /\ Len(input_rx') > Len(input_rx) =>
               \E slot \in DOMAIN threads :
                  /\ Running(slot, input_rx'[Len(input_rx')].job_number)
                  /\ input_rx'[Len(input_rx')].slot = slot]_vars

\* every worker runs a job at the same time
C29_Witness ==
    /\ ncores > 1
    /\ Cardinality(InFlightJobs) = ncores
    /\ \A slot \in DOMAIN threads : threads[slot].pc = "exec"
    /\ threads # <<>>

\* ---------------------------------------------------------------------
\* The launcher: execute/command.rs, get_command_output and shell_output,
\* on Unix.  A child is the program, its arguments and its three streams;
\* a stream that the code does not set is inherited.
\* ---------------------------------------------------------------------
SHELL_ENABLED == "SHELL_ENABLED"

QUIET_MODE == "QUIET_MODE"

DASH_EXISTS == "DASH_EXISTS"

ION_EXISTS == "ION_EXISTS"

\* ArgumentSplitter::new(command).collect(): the words of the command,
\* split at spaces outside quotes; a quote groups, a backslash outside
\* single quotes takes the next character as it is
RECURSIVE SplitArguments(_, _, _, _, _)
SplitArguments(text, word, inword, quote, acc) ==
    IF text = <<>> THEN IF inword THEN Append(acc, word) ELSE acc
    ELSE LET c == Head(text) IN
         IF quote # "" /\ c = quote
         THEN SplitArguments(Tail(text), word, TRUE, "", acc)
         ELSE IF c = "\\" /\ quote # "'" /\ Len(text) > 1
         THEN SplitArguments(Tail(Tail(text)), Append(word, text[2]), TRUE,
                             quote, acc)
         ELSE IF quote # ""
         THEN SplitArguments(Tail(text), Append(word, c), TRUE, quote, acc)
         ELSE IF c \in {"'", "\""}
         THEN SplitArguments(Tail(text), word, TRUE, c, acc)
         ELSE IF c = SP
         THEN SplitArguments(Tail(text), <<>>, FALSE, "",
                             IF inword THEN Append(acc, word) ELSE acc)
         ELSE SplitArguments(Tail(text), Append(word, c), TRUE, "", acc)

ArgumentSplitter(text) == SplitArguments(text, <<>>, FALSE, "", <<>>)

\* the streams of the eight arms of get_command_output and of the four of
\* shell_output
Stdio(fl) ==
    [stdin  |-> IF PIPE_IS_ENABLED \in fl THEN "piped" ELSE "inherit",
     stdout |-> IF QUIET_MODE \in fl THEN "null" ELSE "piped",
     stderr |-> "piped"]

\* fn shell_output(args, flags)
shell_output(args, fl) ==
    LET cmd == IF ION_EXISTS \in fl THEN <<"i", "o", "n">>
               ELSE IF DASH_EXISTS \in fl THEN <<"d", "a", "s", "h">>
               ELSE <<"s", "h">>
    IN  [program |-> cmd, args |-> <<<<"-", "c">>, args>>, stdio |-> Stdio(fl)]

\* a launcher that goes through the shell in pipe mode as well
ThroughShell_AlsoPiped(fl) == SHELL_ENABLED \in fl

\* flags & SHELL_ENABLED != 0 && flags & PIPE_IS_ENABLED == 0
ThroughShell(fl) == SHELL_ENABLED \in fl /\ PIPE_IS_ENABLED \notin fl

\* pub fn get_command_output(command, flags): the child it spawns
get_command_output(text, fl) ==
    IF ThroughShell(fl) THEN shell_output(text, fl)
    ELSE LET words == ArgumentSplitter(text) IN
         IF words = <<>> THEN Panic
         ELSE [program |-> words[1],
               args    |-> IF Len(words) = 1 THEN <<>> ELSE Tail(words),
               stdio   |-> Stdio(fl)]

\* the commands launched: one word, words, a quoted group, an escaped
\* space, and one that needs a shell
LaunchCommands ==
    { <<"l", "s">>,
      <<"l", "s", SP, "a", SP, "b">>,
      <<"l", "s", SP, "'", "a", SP, "b", "'">>,
      <<"l", "s", SP, "a", "\\", SP, "b", SP, "\"", "c", "\"">>,
      <<"l", "s", SP, "a", ";", "l", "s">> }

\* the flags a run can have: main and shell::set_flags set ION_EXISTS or
\* DASH_EXISTS, never both
LaunchFlags ==
    {fl \in SUBSET {PIPE_IS_ENABLED, SHELL_ENABLED, QUIET_MODE, DASH_EXISTS,
                    ION_EXISTS} : ~(DASH_EXISTS \in fl /\ ION_EXISTS \in fl)}

LaunchInit ==
    /\ pc = "launch"
    /\ flags \in LaunchFlags
    /\ command_buffer \in LaunchCommands
    /\ command = NoCommand /\ child_stdin = NoStdin
    /\ tokens = <<>> /\ comm = <<>> /\ exit_code = -1
    /\ unprocessed = <<>> /\ number_of_arguments = 0
    /\ shared_input = NoIterator
    /\ yielded = <<>>
    /\ arguments = <<>> /\ stdin = <<>> /\ max_args = 0
    /\ inputs_are_commands = FALSE /\ quote_enabled = FALSE
    /\ mode = "Arguments" /\ index = 0
    /\ current_inputs = <<>> /\ append_list = <<>> /\ lists = <<>>
    /\ NoPool /\ NoArgs /\ NoExit /\ NoAux

LaunchFrame == UNCHANGED <<spoolVars, readerVars, tokVars, poolVars, argsVars,
                           cmdVars, exitVars, mem_free, memory, now, eta,
                           stderr, digits_call>>

\* get_command_output(arguments.as_str(), self.flags) returning the child
Launch ==
    /\ pc = "launch"
    /\ LET r == get_command_output(command_buffer, flags) IN
       IF r = Panic THEN pc' = "panic" /\ UNCHANGED child
                    ELSE pc' = "spawned" /\ child' = r
    /\ LaunchFrame

\* get_command_output returning the error of spawn
LaunchErr ==
    /\ pc = "launch"
    /\ pc' = "CommandErr"
    /\ UNCHANGED child
    /\ LaunchFrame

LaunchNext == Launch \/ LaunchErr

SpecLaunch == LaunchInit /\ [][LaunchNext]_vars

\* the command has no quote and no backslash
PlainCommand(text) ==
    \A i \in 1..Len(text) : text[i] \notin {"'", "\"", "\\"}

\* the words of a plain command: what is between its spaces
RECURSIVE PlainWords(_, _)
PlainWords(text, word) ==
    IF text = <<>> THEN IF word = <<>> THEN <<>> ELSE <<word>>
    ELSE IF Head(text) = SP
         THEN (IF word = <<>> THEN <<>> ELSE <<word>>)
                 \o PlainWords(Tail(text), <<>>)
         ELSE PlainWords(Tail(text), Append(word, Head(text)))

\* the shell of the flags: ion, else dash, else sh
PreferredShell ==
    IF ION_EXISTS \in flags THEN <<"i", "o", "n">>
    ELSE IF DASH_EXISTS \in flags THEN <<"d", "a", "s", "h">>
    ELSE <<"s", "h">>

DependentSpecs == {<<>>, <<".">>, <<"/">>, <<"/", "/">>, <<"/", ".">>,
                   <<"^", ".", "s">>, <<"/", "^", ".", "s">>}

PosSegments ==
    {<<"x", SP>>}
    \cup {<<"{">> \o n \o spec \o <<"}">> :
             n \in {<<"1">>, <<"2">>}, spec \in DependentSpecs}

PosTemplates ==
    {Flatten(segs) : segs \in SeqsUpTo(PosSegments, MaxSegments)} \ {<<>>}

\* an input that ends with a carriage return, as `:::` can give one
ReturnRecord == <<"b", ".", "s", CR>>

PosSpools == {<<PathRecord, FileRecord>>, <<FileRecord, PathRecord>>,
              <<FileRecord, ReturnRecord>>}

PosInit ==
    /\ pc = "tokenize"
    /\ comm \in PosTemplates
    /\ NoAux
    /\ \E records \in PosSpools :
          /\ unprocessed = SpoolFile(records)
          /\ number_of_arguments = Len(records)
          /\ shared_input = InputIterator_new(SpoolFile(records), Len(records))
    /\ tokens = <<>>
    /\ exit_code = -1
    /\ yielded = <<>>
    /\ arguments = <<>> /\ stdin = <<>> /\ max_args = 0
    /\ inputs_are_commands = FALSE /\ quote_enabled = FALSE
    /\ mode = "Arguments" /\ index = 0
    /\ current_inputs = <<>> /\ append_list = <<>> /\ lists = <<>>
    /\ NoPool /\ NoArgs /\ NoCmd /\ NoExit

PosNext == Tokenize

SpecPos == PosInit /\ [][PosNext]_vars

\* what the command builder renders for `{<spec>}` for the job whose input
\* is the n-th record of the spool
RenderedFor(spec, n) ==
    build_arguments([slot_no |-> to_string(1), job_no |-> to_string(n),
                     input |-> TerminatedRecords(unprocessed)[n]],
                    {}, <<GrammarToken(spec, number_of_arguments)>>, <<>>)

\* C31: a positional placeholder `{N<spec>}` with N in range stands in the
\* tokens as a LITERAL whose text is what the command builder renders for
\* `{<spec>}` on the N-th record of the spool, `{N}` giving the record
\* itself; tokenization does not fail.
C31_PositionalLiteral ==
    LET grammar == Grammar(comm, number_of_arguments) IN
    (/\ pc # "tokenize"
     /\ \A p \in Positionals(comm, number_of_arguments) :
           ~OutOfRange(p, number_of_arguments) /\ p.inner \in DependentSpecs)
    => /\ pc = "tokenized"
       /\ Len(tokens) = Len(grammar)
       /\ \A i \in 1..Len(grammar) :
             grammar[i].token = "Indexed" =>
                tokens[i] = Argument(RenderedFor(grammar[i].inner, grammar[i].n))

\* ---------------------------------------------------------------------
\* SpecRound: templates of literal text and `{}` only, short ones of every
\* shape and two long ones of TokenCapacity and TokenCapacity + 1
\* placeholders, tokenized by main and rendered by the command builder for
\* one input.
\* ---------------------------------------------------------------------
RoundSegments == {<<"x", SP>>, <<"{", "}">>, <<"y">>, <<"}">>}

Repeat(text, n) == Flatten([i \in 1..n |-> text])

RoundTemplates ==
    {Flatten(segs) : segs \in SeqsUpTo(RoundSegments, MaxSegments + 1)}
    \cup {Repeat(<<"{", "}">>, TokenCapacity),
          Repeat(<<"{", "}">>, TokenCapacity + 1)}

RoundInputs == {<<"a">>, PathRecord, <<"{", "}">>}

RoundInit ==
    /\ pc = "tokenize"
    /\ comm \in RoundTemplates
    /\ NoAux
    /\ \E input \in RoundInputs :
          /\ unprocessed = SpoolFile(<<input>>)
          /\ number_of_arguments = 1
          /\ shared_input = InputIterator_new(SpoolFile(<<input>>), 1)
          /\ command = [slot_no |-> to_string(1), job_no |-> to_string(1),
                        input |-> input]
    /\ flags = {} /\ command_buffer = <<>> /\ child_stdin = NoStdin
    /\ tokens = <<>>
    /\ exit_code = -1
    /\ yielded = <<>>
    /\ arguments = <<>> /\ stdin = <<>> /\ max_args = 0
    /\ inputs_are_commands = FALSE /\ quote_enabled = FALSE
    /\ mode = "Arguments" /\ index = 0
    /\ current_inputs = <<>> /\ append_list = <<>> /\ lists = <<>>
    /\ NoPool /\ NoArgs /\ NoExit

\* ParallelCommand::exec: self.build_arguments(arguments) for the job
Render ==
    /\ pc = "tokenized"
    /\ command_buffer' = build_arguments(command, flags, tokens, <<>>)
    /\ pc' = "rendered"
    /\ UNCHANGED <<spoolVars, readerVars, tokVars, poolVars, argsVars,
                   exitVars, auxVars, flags, command, child_stdin>>

RoundNext == Tokenize \/ Render

SpecRound == RoundInit /\ [][RoundNext]_vars

\* the text a token stands for in a template of literals and `{}`
TokenText(token) ==
    IF token.token = "Argument" THEN token.text ELSE <<"{", "}">>

\* the template with each `{}` replaced by the input, from left to right
Replaced(template, input) ==
    Flatten([i \in 1..Len(template) |->
        IF template[i] = "{" /\ i < Len(template) /\ template[i + 1] = "}"
        THEN input
        ELSE IF template[i] = "}" /\ i > 1 /\ template[i - 1] = "{"
        THEN <<>>
        ELSE <<template[i]>>])

\* C32: a template of literal text and `{}` placeholders tokenizes into
\* LITERAL and PLACEHOLDER tokens whose texts, `{}` for a PLACEHOLDER, give
\* back the template when put one after the other, and the tokens rendered
\* with an input are the template with each `{}` replaced by the input.
C32_RoundTrip ==
    pc # "tokenize" =>
        /\ pc \in {"tokenized", "rendered"}
        /\ \A i \in 1..Len(tokens) :
              tokens[i].token \in {"Argument", "Placeholder"}
        /\ Flatten([i \in 1..Len(tokens) |-> TokenText(tokens[i])]) = comm
        /\ pc = "rendered" => command_buffer = Replaced(comm, command.input)

\* ---------------------------------------------------------------------
\* The inputs of `:::` and of files on their way to the lists.
\* ---------------------------------------------------------------------
\* the lines of a file that are inputs: not empty and no comment
InputLines(path) ==
    SelectSeq(FileLines(path), LAMBDA line : line # <<>> /\ Head(line) # "#")

\* the list parse_inputs adds to when it meets a value
ListOf(m, current, append) ==
    IF m \in {"Inputs", "Files"} THEN current ELSE append

\* the inputs a value stands for: itself after `:::`, the lines of the file
\* it names after `::::`
InputsOf(m, value) ==
    IF m \in {"Inputs", "InputsAppend"} THEN <<value>> ELSE InputLines(value)

\* C35: without --quote, every input given after `:::` or read from a file
\* after `::::` goes to its list, and from there to the spool, with the bytes
\* it was given with, whether or not there is a command template (the inputs
\* are the commands when there is none).
C35_InputsUnchanged ==
    [][(/\ pc = "parse_inputs" /\ index <= Len(arguments)
        /\ argument \notin Markers
        /\ ~quote_enabled)
       => ListOf(mode, current_inputs', append_list')
            = ListOf(mode, current_inputs, append_list)
                 \o InputsOf(mode, argument)]_vars

\* ---------------------------------------------------------------------
\* SpecOpt: Args::parse in Mode::Arguments, the loop over the options up to
\* the command or the first list marker, one argument per step.  argv[i] is
\* arguments[i] of the source (arguments[0] is the program).
\* ---------------------------------------------------------------------
\* the names of the long options, the text after `--`
OptDelay        == <<"d", "e", "l", "a", "y">>
OptDryRun       == <<"d", "r", "y", "-", "r", "u", "n">>
OptEta          == <<"e", "t", "a">>
OptHelp         == <<"h", "e", "l", "p">>
OptJoblog       == <<"j", "o", "b", "l", "o", "g">>
OptJoblog8601   == <<"j", "o", "b", "l", "o", "g", "-", "8", "6", "0", "1">>
OptJobs         == <<"j", "o", "b", "s">>
OptNumCpuCores  == <<"n", "u", "m", "-", "c", "p", "u", "-", "c", "o", "r", "e", "s">>
OptMaxArgs      == <<"m", "a", "x", "-", "a", "r", "g", "s">>
OptMemFree      == <<"m", "e", "m", "-", "f", "r", "e", "e">>
OptPipe         == <<"p", "i", "p", "e">>
OptQuiet        == <<"q", "u", "i", "e", "t">>
OptSilent       == <<"s", "i", "l", "e", "n", "t">>
OptQuote        == <<"q", "u", "o", "t", "e">>
OptShellquote   == <<"s", "h", "e", "l", "l", "q", "u", "o", "t", "e">>
OptTimeout      == <<"t", "i", "m", "e", "o", "u", "t">>
OptVerbose      == <<"v", "e", "r", "b", "o", "s", "e">>
OptVersion      == <<"v", "e", "r", "s", "i", "o", "n">>
OptTmpdir       == <<"t", "m", "p", "d", "i", "r">>
OptTempdir      == <<"t", "e", "m", "p", "d", "i", "r">>
OptShebang      == <<"s", "h", "e", "b", "a", "n", "g">>

VERBOSE_MODE == "VERBOSE_MODE"
DRY_RUN      == "DRY_RUN"
ETA          == "ETA"
JOBLOG       == "JOBLOG"
JOBLOG_8601  == "JOBLOG_8601"

\* what one pass of the loop leaves: how it ends (Next: the loop goes on;
\* Break: the command or a list marker was found; an exit, a ParseErr or
\* Panic otherwise), the arguments it took after its own, and what it set
Outcome(res, taken, fl, quote, m, messages) ==
    [res |-> res, taken |-> taken, flags |-> fl, quote |-> quote,
     max_args |-> m, messages |-> messages]

Goes(fl, quote) == Outcome("Next", 0, fl, quote, -1, <<>>)

Ends(res) == Outcome(res, 0, {}, FALSE, -1, <<>>)

\* writeln!(stderr, "parallel: unsupported argument: '{}'", argument)
Unsupported(text) == [message |-> "unsupported argument", argument |-> text]

\* s.parse::<usize>() and s.parse::<f64>() on the values drawn here, digit
\* strings and words, which both take or both refuse
Parses(value) == parse_u64(value).res = "Ok"

\* the usize a value parses to
RECURSIVE ParsedDigits(_, _)
ParsedDigits(text, acc) ==
    IF text = <<>> THEN acc
    ELSE ParsedDigits(Tail(text), acc * 10 + to_digit(Head(text)))

ParsedValue(value) ==
    ParsedDigits(IF Head(value) = "+" THEN Tail(value) ELSE value, 0)

\* an option that takes the next argument as its value: the ParseErr when
\* there is none, the ParseErr when it does not parse, else the value taken
Valued(next, no_value, invalid, ok) ==
    IF next = <<>> THEN Ends(no_value)
    ELSE IF ~ok THEN Ends(invalid)
    ELSE Outcome("Next", 1, {}, FALSE, -1, <<>>)

\* the arm `_ if &argument[2..9] == "shebang"` and the arm after it: the
\* slice panics for an argument of fewer than 9 bytes, and argument[10..]
\* for `--shebang` itself
LongOther(arg) ==
    IF Len(arg) < 9 THEN Panic
    ELSE IF StrSlice(arg, 2, 9) = OptShebang
    THEN IF Len(arg) < 10 THEN Panic
         ELSE Outcome("Break", 0, {}, FALSE, -1, <<>>)
    ELSE Outcome("Next", 0, {}, FALSE, -1, <<Unsupported(arg)>>)

\* match &argument[2..]: the long options; next is <<the next argument>>, or
\* <<>> when there is none
LongOption(arg, next) ==
    LET name  == StrSlice(arg, 2, Len(arg))
        value == next[1]
    IN CASE name = OptDelay -> Valued(next, "DelayNoValue", "DelayNaN", Parses(value))
         [] name = OptDryRun -> Goes({DRY_RUN}, FALSE)
         [] name = OptEta -> Goes({ETA, QUIET_MODE}, FALSE)
         [] name \in {OptHelp, OptNumCpuCores, OptVersion} -> Ends("exit")
         [] name = OptJoblog -> [Valued(next, "JoblogNoValue", "JoblogNoValue", TRUE)
                                    EXCEPT !.flags = IF next = <<>> THEN {} ELSE {JOBLOG}]
         [] name = OptJoblog8601 -> Goes({JOBLOG_8601}, FALSE)
         [] name = OptJobs -> Valued(next, "JobsNoValue", "JobsNaN", Parses(value))
         [] name = OptMaxArgs ->
                IF next # <<>> /\ Parses(value)
                THEN Outcome("Next", 1, {}, FALSE, ParsedValue(value), <<>>)
                ELSE Valued(next, "MaxArgsNoValue", "MaxArgsNaN", FALSE)
         [] name = OptMemFree -> Valued(next, "MemNoValue", "MemInvalid", Parses(value))
         [] name = OptPipe -> Goes({PIPE_IS_ENABLED}, FALSE)
         [] name \in {OptQuiet, OptSilent} -> Goes({QUIET_MODE}, FALSE)
         [] name = OptQuote -> Goes({}, TRUE)
         [] name = OptShellquote -> Goes({DRY_RUN, SHELL_QUOTE}, FALSE)
         [] name = OptTimeout -> Valued(next, "TimeoutNoValue", "TimeoutNaN", Parses(value))
         [] name = OptVerbose -> Goes({VERBOSE_MODE}, FALSE)
         [] name \in {OptTmpdir, OptTempdir} ->
                Valued(next, "WorkDirNoValue", "WorkDirNoValue", TRUE)
         [] OTHER -> LongOther(arg)

\* for character in argument[1..].bytes(): the letters of a short option,
\* one after the other; `h` prints the manual and exits
RECURSIVE ShortLetters(_, _)
ShortLetters(letters, out) ==
    IF letters = <<>> THEN out
    ELSE LET character == Head(letters) IN
         CASE character = "h" -> Ends("exit")
           [] character = "p" ->
                ShortLetters(Tail(letters), [out EXCEPT !.flags = @ \cup {PIPE_IS_ENABLED}])
           [] character = "q" ->
                ShortLetters(Tail(letters), [out EXCEPT !.quote = TRUE])
           [] character = "s" ->
                ShortLetters(Tail(letters), [out EXCEPT !.flags = @ \cup {QUIET_MODE}])
           [] character = "v" ->
                ShortLetters(Tail(letters), [out EXCEPT !.flags = @ \cup {VERBOSE_MODE}])
           [] OTHER ->
                ShortLetters(Tail(letters),
                    [out EXCEPT !.messages = Append(@, Unsupported(<<"-", character>>))])

\* parse_max_args: `-n3`, or `-n 3` with the index moved past the value
parse_max_args(arg, next) ==
    IF Len(arg) > 2
    THEN LET value == StrSlice(arg, 2, Len(arg)) IN
         IF Parses(value) THEN Outcome("Next", 0, {}, FALSE, ParsedValue(value), <<>>)
         ELSE Ends("MaxArgsNaN")
    ELSE IF next = <<>> THEN Ends("MaxArgsNoValue")
    ELSE IF Parses(next[1])
    THEN Outcome("Next", 1, {}, FALSE, ParsedValue(next[1]), <<>>)
    ELSE Ends("MaxArgsNaN")

\* one pass of `while let Some(argument) = arguments.get(index)`
ParseOneArgument(arg, next) ==
    IF arg = <<>> THEN Panic
    ELSE IF arg[1] = "-"
    THEN IF Len(arg) = 1 THEN Ends("InvalidArgument")
         ELSE IF arg[2] = "n" THEN parse_max_args(arg, next)
         ELSE IF arg[2] # "-"
         THEN ShortLetters(Tail(arg), Goes({}, FALSE))
         ELSE LongOption(arg, next)
    ELSE Outcome("Break", 0, {}, FALSE, -1, <<>>)

\* the arguments drawn: unknown long options of 5, 2 and 13 bytes,
\* `--shebang` with nothing after it, unknown and known short letters, a
\* lone dash, an empty argument, options with and without their value, a
\* number, a word, `--shebang` with a command, and a list marker
OptArguments ==
    {
     <<"-", "-", "x", "y", "z">>,
     <<"-", "-">>,
     <<"-", "-", "u", "n", "s", "u", "p", "p", "o", "r", "t", "e", "d">>,
     <<"-", "-", "s", "h", "e", "b", "a", "n", "g">>,
     <<"-", "x">>,
     <<"-", "q", "x">>,
     <<"-">>,
     <<>>,
     <<"-", "-", "q", "u", "o", "t", "e">>,
     <<"-", "-", "m", "a", "x", "-", "a", "r", "g", "s">>,
     <<"-", "n">>,
     <<"3">>,
     <<"x">>,
     <<"-", "-", "s", "h", "e", "b", "a", "n", "g", " ", "x">>,
     MarkInputs}

MaxOptions == 3

OptInit ==
    /\ pc = "options"
    /\ argv \in SeqsUpTo(OptArguments, MaxOptions)
    /\ redirected = FALSE
    /\ index = 1
    /\ mode = "Arguments"
    /\ flags = {} /\ command = NoCommand /\ command_buffer = <<>>
    /\ child_stdin = NoStdin
    /\ comm = <<>> /\ tokens = <<>> /\ exit_code = -1
    /\ arguments = <<>> /\ stdin = <<>> /\ max_args = 0
    /\ inputs_are_commands = FALSE /\ quote_enabled = FALSE
    /\ current_inputs = <<>> /\ append_list = <<>> /\ lists = <<>>
    /\ unprocessed = <<>> /\ number_of_arguments = 0
    /\ shared_input = NoIterator
    /\ yielded = <<>>
    /\ NoPool /\ NoExit /\ NoAux

OptFrame == UNCHANGED <<arguments, stdin, inputs_are_commands, current_inputs,
                        append_list, lists, unprocessed, number_of_arguments,
                        readerVars, tokens, poolVars, argsVars, command,
                        command_buffer, child_stdin, exitVars, mem_free,
                        memory, now, eta, child, digits_call>>

\* the option at argv[index] and the argument after it, if any
NextArgument == IF index < Len(argv) THEN <<argv[index + 1]>> ELSE <<>>

\* one pass of the loop that goes on to the next argument
ParseOption ==
    /\ pc = "options" /\ index <= Len(argv)
    /\ LET out == ParseOneArgument(argv[index], NextArgument) IN
       /\ out # Panic /\ out.res = "Next"
       /\ index' = index + 1 + out.taken
       /\ flags' = flags \cup out.flags
       /\ quote_enabled' = (quote_enabled \/ out.quote)
       /\ max_args' = IF out.max_args = -1 THEN max_args ELSE out.max_args
       /\ stderr' = stderr \o out.messages
    /\ UNCHANGED <<pc, mode, comm, exit_code>>
    /\ OptFrame

\* the pass that finds the command or a list marker, and the end of the
\* arguments
ParseOptionBreak ==
    /\ pc = "options"
    /\ IF index > Len(argv)
       THEN pc' = "parsed" /\ UNCHANGED <<index, mode, comm>>
       ELSE LET out == ParseOneArgument(argv[index], NextArgument) IN
            /\ out # Panic /\ out.res = "Break"
            /\ index' = index + 1
            /\ pc' = "parsed"
            /\ IF argv[index] = MarkInputs
               THEN mode' = "Inputs" /\ comm' = comm
               ELSE IF argv[index] = MarkFiles
               THEN mode' = "Files" /\ comm' = comm
               ELSE IF argv[index][1] = "-"
               THEN mode' = mode /\ comm' = StrSlice(argv[index], 10, Len(argv[index]))
               ELSE /\ mode' = "Command"
                    /\ comm' = IF quote_enabled THEN quote_command(argv[index])
                                                ELSE argv[index]
    /\ UNCHANGED <<flags, quote_enabled, max_args, stderr, exit_code>>
    /\ OptFrame

\* the pass that returns a ParseErr, or prints the manual or the version and
\* exits with 0
ParseOptionErr ==
    /\ pc = "options" /\ index <= Len(argv)
    /\ LET out == ParseOneArgument(argv[index], NextArgument) IN
       /\ out # Panic /\ out.res \notin {"Next", "Break"}
       /\ pc' = out.res
       /\ exit_code' = IF out.res = "exit" THEN 0 ELSE exit_code
    /\ UNCHANGED <<index, mode, comm, flags, quote_enabled, max_args, stderr>>
    /\ OptFrame

\* the pass that panics: the main thread unwinds and the process exits 101
ParseOptionPanic ==
    /\ pc = "options" /\ index <= Len(argv)
    /\ ParseOneArgument(argv[index], NextArgument) = Panic
    /\ pc' = "panic"
    /\ exit_code' = 101
    /\ UNCHANGED <<index, mode, comm, flags, quote_enabled, max_args, stderr>>
    /\ OptFrame

OptNext == ParseOption \/ ParseOptionBreak \/ ParseOptionErr \/ ParseOptionPanic

SpecOpt == OptInit /\ [][OptNext]_vars

\* an option the parser does not know: `--` and a name that is none of the
\* long options and does not start with `shebang`, or a dash and letters
\* none of which is an option
LongNames ==
    {OptDelay, OptDryRun, OptEta, OptHelp, OptJoblog, OptJoblog8601, OptJobs,
     OptNumCpuCores, OptMaxArgs, OptMemFree, OptPipe, OptQuiet, OptSilent,
     OptQuote, OptShellquote, OptTimeout, OptVerbose, OptVersion, OptTmpdir,
     OptTempdir}

UnknownLong(text) ==
    /\ Len(text) >= 2 /\ text[1] = "-" /\ text[2] = "-"
    /\ StrSlice(text, 2, Len(text)) \notin LongNames
    /\ ~(Len(text) >= 9 /\ StrSlice(text, 2, 9) = OptShebang)

UnknownShort(text) ==
    /\ Len(text) = 2 /\ text[1] = "-"
    /\ text[2] \notin {"-", "j", "n", "h", "p", "q", "s", "v"}

\* C36: an option the parser does not know never makes it crash: for an
\* unknown long option of any length and for an unknown short letter it
\* writes the `unsupported argument` message for that option to stderr and
\* goes on with the next argument, and the parser never panics, whatever the
\* arguments: a malformed one gives a ParseErr.
C36_UnknownOptions ==
    /\ [](pc # "panic")
    /\ [][(/\ pc = "options" /\ index <= Len(argv)
           /\ UnknownLong(argv[index]) \/ UnknownShort(argv[index]))
          => /\ pc' = "options"
             /\ index' = index + 1
             /\ stderr' = Append(stderr, Unsupported(argv[index]))]_vars

\* ---------------------------------------------------------------------
\* SpecDigits: Digits::digits, the macro impl_digits_for! on an integer
\* type of `bits` bits, signed or not.  Overflow of `+` panics in a build
\* with overflow checks and wraps in one without; `<<` by 3 or 1 drops the
\* bits shifted out in both.
\* ---------------------------------------------------------------------
IntType(bits, signed) == [bits |-> bits, signed |-> signed]

MinOf(T) == IF T.signed THEN -(2 ^ (T.bits - 1)) ELSE 0

MaxOf(T) == IF T.signed THEN 2 ^ (T.bits - 1) - 1 ELSE 2 ^ T.bits - 1

\* the value of type T that has the low bits of x
Wrap(T, x) ==
    LET low == x % (2 ^ T.bits)
    IN  IF low > MaxOf(T) THEN low - 2 ^ T.bits ELSE low

\* a << k
Shl(T, a, k) == Wrap(T, a * 2 ^ k)

\* a + b
Add(T, a, b, checks) ==
    IF a + b > MaxOf(T) \/ a + b < MinOf(T)
    THEN IF checks THEN Panic ELSE [res |-> "Ok", value |-> Wrap(T, a + b)]
    ELSE [res |-> "Ok", value |-> a + b]

Diverges == [res |-> "diverges"]

\* while temp < *self { digits += 1; temp = (temp << 3) + (temp << 1); }
\* Once temp is 0 below *self it stays 0: the loop runs until digits += 1
\* overflows, which panics with overflow checks and never ends without.
RECURSIVE DigitsLoop(_, _, _, _, _)
DigitsLoop(T, self, count, temp, checks) ==
    IF ~(temp < self) THEN [res |-> "Ok", value |-> count]
    ELSE IF temp = 0 THEN (IF checks THEN Panic ELSE Diverges)
    ELSE LET d == Add(T, count, 1, checks)
             t == Add(T, Shl(T, temp, 3), Shl(T, temp, 1), checks)
         IN  IF d = Panic \/ t = Panic THEN Panic
             ELSE DigitsLoop(T, self, d.value, t.value, checks)

\* fn digits(&self) -> $t
digits(T, self, checks) ==
    DigitsLoop(T, self, IF self = 1 \/ self % 10 = 0 THEN 1 ELSE 0, 1, checks)

\* the types drawn: u8 and i8 with every value, u16 with the values around
\* the powers of ten and the end of the type
SmallBits == 8

WideBits == 16

WideValues ==
    {0, 1, 9, 10, 11, 20, 99, 100, 101, 999, 1000, 1001, 9999, 10000, 10001,
     10010, 34463, 34464, 34465, 65535}

DigitsCalls ==
    {[type |-> T, self |-> n, checks |-> c] :
        T \in {IntType(SmallBits, FALSE), IntType(SmallBits, TRUE)},
        n \in -(2 ^ (SmallBits - 1)) .. 2 ^ SmallBits - 1,
        c \in BOOLEAN}
    \cup {[type |-> IntType(WideBits, FALSE), self |-> n, checks |-> c] :
            n \in WideValues, c \in BOOLEAN}

DigitsInit ==
    /\ pc = "call"
    /\ mem_free = <<>> /\ memory = <<0, 0, 0, 0>> /\ now = 0 /\ eta = NoEta
    /\ stderr = <<>> /\ child = NoChild
    /\ \E call \in DigitsCalls :
          /\ MinOf(call.type) <= call.self /\ call.self <= MaxOf(call.type)
          /\ digits_call = call
    /\ comm = <<>> /\ tokens = <<>> /\ exit_code = -1
    /\ arguments = <<>> /\ stdin = <<>> /\ max_args = 0
    /\ inputs_are_commands = FALSE /\ quote_enabled = FALSE
    /\ mode = "Arguments" /\ index = 0
    /\ current_inputs = <<>> /\ append_list = <<>> /\ lists = <<>>
    /\ unprocessed = <<>> /\ number_of_arguments = 0
    /\ shared_input = NoIterator
    /\ yielded = <<>>
    /\ NoPool /\ NoArgs /\ NoCmd /\ NoExit

\* a call of digits() on the number drawn
CallDigits ==
    /\ pc = "call"
    /\ LET r == digits(digits_call.type, digits_call.self, digits_call.checks) IN
       /\ pc' = IF r.res = "Ok" THEN "returned" ELSE r.res
       /\ digits_call' = IF r.res = "Ok"
                         THEN [type |-> digits_call.type, self |-> digits_call.self,
                               checks |-> digits_call.checks, result |-> r.value]
                         ELSE digits_call
    /\ UNCHANGED <<spoolVars, readerVars, tokVars, poolVars, argsVars, cmdVars,
                   exitVars, mem_free, memory, now, eta, stderr, child>>

DigitsNext == CallDigits

SpecDigits == DigitsInit /\ [][DigitsNext]_vars

\* floor(log10(n)) + 1 for n >= 1, by division
RECURSIVE DecimalDigits(_)
DecimalDigits(n) == IF n < 10 THEN 1 ELSE 1 + DecimalDigits(n \div 10)

\* C37: digits() returns the number of decimal digits of its argument as
\* documented, 0 for 0 and floor(log10(n)) + 1 for n >= 1, for every value
\* of every integer type it is implemented for, and its loop ends without
\* arithmetic overflow.
C37_Digits ==
    pc # "call" =>
        /\ pc = "returned"
        /\ digits_call.self = 0 => digits_call.result = 0
        /\ digits_call.self >= 1 => digits_call.result = DecimalDigits(digits_call.self)
====
